---- MODULE Spec2Model ----
(***************************************************************************)
(* A model of dinocheck's orchestration-and-cache engine: the result store *)
(* (cache table, call-log table, schema version), the schema migrator, and *)
(* Engine.analyze with its worker pool.                                    *)
(***************************************************************************)
EXTENDS Integers, Sequences, FiniteSets, TLC

VARIABLES
    \* ---- the persistent store file --------------------------------------
    cache,          \* rows of the cache table
    llm_logs,       \* rows of the llm_logs table, oldest first
    log_columns,    \* column names of the llm_logs table ({} = no table yet)
    user_version,   \* PRAGMA user_version
    now,            \* wall clock, in hours
    ttl_hours,      \* SQLiteCache(..., ttl_hours=...)
    opened,         \* a SQLiteCache object has been constructed on the file
    call,           \* the last store operation and what it returned
    \* ---- history variables of the store ----------------------------------
    lastPut,        \* key -> [issues, at] of the most recent put since the last clear
    pre,            \* the store file as it was when the last open started
    \* ---- the engine -------------------------------------------------------
    workspace,      \* the FileContexts that discovery yields, in order
    config,         \* DinocheckConfig, provider.max_concurrent and analyze's rule_filter
    pc,             \* where analyze is: "idle" or "collecting"
    run,            \* the locals of the analyze call in progress (or just ended)
    units,          \* the submitted _analyze_file_sync tasks, in submission order
    result,         \* the AnalysisResult returned by the last analyze
    hist,           \* history of the runs: counters and the previous run's result
    \* ---- the scoring functions called on their own -----------------------
    scoring,        \* a list of findings, its score and its gate once computed
    \* ---- a Migrator and the post-processing steps called on their own -----
    migrator,       \* a Migrator, the store it migrates and the call in progress
    post            \* a list of findings and what the post-processing steps made of it

storeVars == <<cache, llm_logs, log_columns, user_version, now, ttl_hours, opened, call>>
histVars == <<lastPut, pre>>
engineVars == <<workspace, config, pc, run, units, result, hist>>
scoreVars == <<scoring>>
libVars == <<migrator, post>>
vars == <<storeVars, histVars, engineVars, scoreVars, libVars>>

None == "None"     \* None among strings
NoLine == 0        \* None for a line number (lines count from 1)
NoCost == 0 - 1    \* None for the cost_usd argument

(***************************************************************************)
(* Bounds of the model.                                                    *)
(***************************************************************************)
MaxRows == 2         \* cache rows held at once in the store specification
MaxLogs == 1         \* call-log rows in the store specification
MaxNow == 2          \* last clock value of the store specification
MaxLegacyLogs == 1   \* call-log rows of a legacy database file

(***************************************************************************)
(* Issue levels                                                            *)
(***************************************************************************)
IssueLevels == {"BLOCKER", "CRITICAL", "MAJOR", "MINOR", "INFO"}

LevelValue(l) ==
    CASE l = "BLOCKER" -> "blocker"
      [] l = "CRITICAL" -> "critical"
      [] l = "MAJOR" -> "major"
      [] l = "MINOR" -> "minor"
      [] l = "INFO" -> "info"

LevelValues == {LevelValue(l) : l \in IssueLevels}

\* IssueLevel(value): the member with that value
IssueLevel(v) == CHOOSE l \in IssueLevels : LevelValue(l) = v

(***************************************************************************)
(* Issues and their serialized form in the cache table                     *)
(***************************************************************************)
Issue(rule_id, level, path, start_line, end_line, title) ==
    [rule_id |-> rule_id, level |-> level, path |-> path,
     start_line |-> start_line, end_line |-> end_line, title |-> title]

\* one element of issues_json: the level by its value, the location flattened
IssueToDict(i) ==
    <<i.rule_id, LevelValue(i.level), i.path, i.start_line, i.end_line, i.title>>

IssueFromDict(d) == Issue(d[1], IssueLevel(d[2]), d[3], d[4], d[5], d[6])

IssuesToJson(issues) == [n \in 1..Len(issues) |-> IssueToDict(issues[n])]

IssuesFromJson(js) == [n \in 1..Len(js) |-> IssueFromDict(js[n])]

(***************************************************************************)
(* The cache table                                                         *)
(***************************************************************************)
CacheRow(file_hash, pack_version, rules_hash, issues, created_at) ==
    [file_hash |-> file_hash, pack_version |-> pack_version, rules_hash |-> rules_hash,
     issues_json |-> IssuesToJson(issues), created_at |-> created_at]

KeyOf(r) == <<r.file_hash, r.pack_version, r.rules_hash>>

Expired(r, t, ttl) == t - r.created_at > ttl

\* An optional value: Absent is Python's None, Some(x) a value that is there
Absent == <<>>

Some(x) == <<x>>

\* get(file_hash, pack_version, rules_hash) -> list[Issue] | None, and the table
\* as the call leaves it
CacheGetSliding(rows, t, ttl, k) ==
    LET live == {r \in rows : KeyOf(r) = k /\ ~Expired(r, t, ttl)}
    IN  [ret |-> IF live = {} THEN Absent
                 ELSE Some(IssuesFromJson((CHOOSE r \in live : TRUE).issues_json)),
         rows |-> (rows \ live) \cup {[r EXCEPT !.created_at = t] : r \in live}]

CacheGet(rows, t, ttl, k) ==
    LET live == {r \in rows : KeyOf(r) = k /\ ~Expired(r, t, ttl)}
    IN  [ret |-> IF live = {} THEN Absent
                 ELSE Some(IssuesFromJson((CHOOSE r \in live : TRUE).issues_json)),
         rows |-> rows]

\* put(file_hash, pack_version, rules_hash, issues): INSERT OR REPLACE
CachePutIgnore(rows, t, k, issues) ==
    IF \E r \in rows : KeyOf(r) = k THEN rows
    ELSE rows \cup {CacheRow(k[1], k[2], k[3], issues, t)}

CachePutNoReplace(rows, t, k, issues) ==
    rows \cup {CacheRow(k[1], k[2], k[3], issues, t)}

CachePutHashPair(rows, t, k, issues) ==
    {r \in rows : ~(r.file_hash = k[1] /\ r.rules_hash = k[3])}
        \cup {CacheRow(k[1], k[2], k[3], issues, t)}

CachePut(rows, t, k, issues) ==
    {r \in rows : KeyOf(r) # k} \cup {CacheRow(k[1], k[2], k[3], issues, t)}

\* clear() -> int: deletes the cache rows, not the call logs
CacheClearKeepRows(rows, logs) == [count |-> Cardinality(rows), rows |-> rows, logs |-> logs]

CacheClearWithLogs(rows, logs) == [count |-> Cardinality(rows), rows |-> {}, logs |-> <<>>]

CacheClear(rows, logs) == [count |-> Cardinality(rows), rows |-> {}, logs |-> logs]

\* stats().entries (the size in bytes of the file is not modelled)
CacheStats(rows) == [entries |-> Cardinality(rows)]

(***************************************************************************)
(* The llm_logs table                                                      *)
(***************************************************************************)
CurrentColumns ==
    {"id", "timestamp", "model", "pack", "files_json", "prompt_tokens",
     "completion_tokens", "total_tokens", "cost_usd", "duration_ms",
     "issues_found", "cached"}

RemovedColumns == {"prompt_text", "response_text"}

LegacyColumns == CurrentColumns \cup RemovedColumns

\* models of the pricing table; a token of a priced model costs one unit
PricedModels == {"gpt-4o-mini"}

CostOf(model, prompt_tokens, completion_tokens) ==
    IF model \in PricedModels THEN prompt_tokens + completion_tokens ELSE 0

LogRow(cols, id, t, a, cost) ==
    LET full == [id |-> id, timestamp |-> t, model |-> a.model, pack |-> a.pack,
                 files_json |-> a.files, prompt_tokens |-> a.prompt_tokens,
                 completion_tokens |-> a.completion_tokens,
                 total_tokens |-> a.prompt_tokens + a.completion_tokens,
                 cost_usd |-> cost, duration_ms |-> a.duration_ms,
                 issues_found |-> a.issues_found, cached |-> 0]
    IN  [c \in cols |-> IF c \in DOMAIN full THEN full[c] ELSE None]

\* log_llm_call(model, pack, files, prompt_tokens, completion_tokens, duration_ms,
\*              issues_found, cost_usd=None) -> cost_usd
LogLlmCall(logs, cols, t, a) ==
    LET cost == IF a.cost_usd = NoCost
                THEN CostOf(a.model, a.prompt_tokens, a.completion_tokens)
                ELSE a.cost_usd
    IN  [ret |-> cost, logs |-> Append(logs, LogRow(cols, Len(logs) + 1, t, a, cost))]

\* get_llm_logs(limit): most recent first
GetLlmLogs(logs, limit) ==
    LET n == IF limit < Len(logs) THEN limit ELSE Len(logs)
    IN  [i \in 1..n |-> logs[Len(logs) + 1 - i]]

RECURSIVE SumOver(_, _, _)
SumOver(logs, col, since) ==
    IF logs = <<>> THEN 0
    ELSE (IF Head(logs)["timestamp"] >= since THEN Head(logs)[col] ELSE 0)
            + SumOver(Tail(logs), col, since)

\* get_cost_summary(days)
GetCostSummary(logs, t, days) ==
    LET since == t - 24 * days
    IN  [total_calls |-> Len(SelectSeq(logs, LAMBDA r : r["timestamp"] >= since)),
         total_tokens |-> SumOver(logs, "total_tokens", since),
         total_cost |-> SumOver(logs, "cost_usd", since),
         total_issues |-> SumOver(logs, "issues_found", since)]

(***************************************************************************)
(* Schema migrations.  A connection is [user_version, log_columns,         *)
(* llm_logs]: what a migration reads and writes.                           *)
(***************************************************************************)
Conn(version, cols, logs) ==
    [user_version |-> version, log_columns |-> cols, llm_logs |-> logs]

get_version(conn) == conn.user_version

set_version(conn, version) == [conn EXCEPT !.user_version = version]

\* ALTER TABLE llm_logs DROP COLUMN col
DropColumn(conn, col) ==
    [conn EXCEPT
        !.log_columns = conn.log_columns \ {col},
        !.llm_logs = [n \in 1..Len(conn.llm_logs) |->
                        [c \in (DOMAIN conn.llm_logs[n]) \ {col} |-> conn.llm_logs[n][c]]]]

M001_apply_first_only(conn) ==
    IF "prompt_text" \in conn.log_columns THEN DropColumn(conn, "prompt_text") ELSE conn

\* M001DropPromptResponse.apply
M001_apply(conn) ==
    LET existing == conn.log_columns
        c1 == IF "prompt_text" \in existing THEN DropColumn(conn, "prompt_text") ELSE conn
    IN  IF "response_text" \in existing THEN DropColumn(c1, "response_text") ELSE c1

MIGRATIONS == <<"M001DropPromptResponse">>

MigrationApply(m, conn) ==
    CASE m = "M001DropPromptResponse" -> M001_apply(conn)

\* for i in range(current, target): self._migrations[i].apply(conn)
RECURSIVE ApplyRange(_, _, _)
ApplyRange(conn, i, target) ==
    IF i >= target THEN conn
    ELSE ApplyRange(MigrationApply(MIGRATIONS[i + 1], conn), i + 1, target)

apply_pending_partial(conn, target) ==
    LET current == get_version(conn)
        last == Len(MIGRATIONS)
    IN  IF target > last
        THEN [raised |-> "ValueError: exceeds available migrations",
              conn |-> set_version(ApplyRange(conn, current, last), last)]
        ELSE IF target < current
        THEN [raised |-> "ValueError: downgrade not supported", conn |-> conn]
        ELSE [raised |-> None,
              conn |-> set_version(ApplyRange(conn, current, target), target)]

apply_pending_no_downgrade_check(conn, target) ==
    IF target > Len(MIGRATIONS)
    THEN [raised |-> "ValueError: exceeds available migrations", conn |-> conn]
    ELSE [raised |-> None,
          conn |-> set_version(ApplyRange(conn, get_version(conn), target), target)]

apply_pending_from_zero(conn, target) ==
    IF target > Len(MIGRATIONS)
    THEN [raised |-> "ValueError: exceeds available migrations", conn |-> conn]
    ELSE IF target < get_version(conn)
    THEN [raised |-> "ValueError: downgrade not supported", conn |-> conn]
    ELSE [raised |-> None, conn |-> set_version(ApplyRange(conn, 0, target), target)]

\* Migrator.apply_pending(conn, target): the error raised (None if none) and the
\* connection as the call leaves it
apply_pending(conn, target) ==
    LET current == get_version(conn)
    IN  IF target > Len(MIGRATIONS)
        THEN [raised |-> "ValueError: exceeds available migrations", conn |-> conn]
        ELSE IF target < current
        THEN [raised |-> "ValueError: downgrade not supported", conn |-> conn]
        ELSE [raised |-> None,
              conn |-> set_version(ApplyRange(conn, current, target), target)]

\* SQLiteCache.CURRENT_VERSION
CURRENT_VERSION == Len(MIGRATIONS)

\* SQLiteCache.__init__: create the tables that are missing, then migrate
OpenStore(conn) ==
    LET made == IF conn.log_columns = {}
                THEN [conn EXCEPT !.log_columns = CurrentColumns]
                ELSE conn
    IN  apply_pending(made, CURRENT_VERSION)

(***************************************************************************)
(* Content and rule-set hashing.  A content is a sequence of lines, a line *)
(* its indentation, its text and its trailing whitespace; a digest is      *)
(* modelled by the value that is hashed.                                   *)
(***************************************************************************)
Line(indent, text, trail) == [indent |-> indent, text |-> text, trail |-> trail]

hash_content_raw(content) == content

\* ContentHasher.hash_content: trailing whitespace stripped from each line
hash_content(content) ==
    [n \in 1..Len(content) |-> <<content[n].indent, content[n].text>>]

hash_rules_ordered(rule_ids) == rule_ids

\* ContentHasher.hash_rules: the ids sorted, so their order does not count
hash_rules(rule_ids) == {rule_ids[n] : n \in 1..Len(rule_ids)}

(***************************************************************************)
(* Packs and rules                                                         *)
(***************************************************************************)
FooText == "def foo(): pass"

BarText == "def bar(): pass"

\* a rule, and the line texts its triggers match
Rule(id, level, matches) == [id |-> id, level |-> level, matches |-> matches]

PackRegistry == {"python", "django"}

PackRules(name) ==
    CASE name = "python" -> <<Rule("python/other-rule", "MINOR", {FooText, BarText})>>
      [] name = "django" -> <<Rule("django/n-plus-one", "MAJOR", {FooText, BarText})>>

\* all_rules[rule.id] = rule: a later rule replaces an earlier one of the same id
RECURSIVE DictSet(_, _)
DictSet(rules, new) ==
    IF new = <<>> THEN rules
    ELSE LET r == Head(new)
             at == {n \in 1..Len(rules) : rules[n].id = r.id}
         IN  DictSet(IF at = {} THEN Append(rules, r)
                     ELSE [n \in 1..Len(rules) |-> IF n \in at THEN r ELSE rules[n]],
                     Tail(new))

RECURSIVE AllRules(_, _)
AllRules(pack_names, rules) ==
    IF pack_names = <<>> THEN rules
    ELSE AllRules(Tail(pack_names), DictSet(rules, PackRules(Head(pack_names))))

compose_skip_unknown(pack_names) ==
    LET Known(name) == name \in PackRegistry
    IN  [raised |-> None,
         pack |-> [name |-> pack_names, version |-> "composed",
                   rules |-> AllRules(SelectSeq(pack_names, Known), <<>>)]]

\* PackCompositor.compose: get_pack raises for a name that is not registered
compose(pack_names) ==
    IF \E n \in 1..Len(pack_names) : pack_names[n] \notin PackRegistry
    THEN [raised |-> "ValueError: Pack not found", pack |-> <<>>]
    ELSE [raised |-> None,
          pack |-> [name |-> pack_names, version |-> "composed",
                    rules |-> AllRules(pack_names, <<>>)]]

\* ComposedPack.get_rules_for_file
get_rules_for_file(pack, path, content) ==
    LET Applies(r) == \E n \in 1..Len(content) : content[n].text \in r.matches
    IN  SelectSeq(pack.rules, Applies)

RuleIds(pack) == [n \in 1..Len(pack.rules) |-> pack.rules[n].id]

(***************************************************************************)
(* The provider's answer to one call, and its translation                  *)
(***************************************************************************)
CriticIssue(rule_id, level, start_line, end_line, title) ==
    [rule_id |-> rule_id, level |-> level, start_line |-> start_line,
     end_line |-> end_line, title |-> title]

_response_to_issues_all_or_nothing(response, path) ==
    IF \E n \in 1..Len(response) : response[n].level \notin LevelValues THEN <<>>
    ELSE [n \in 1..Len(response) |->
            Issue(response[n].rule_id, IssueLevel(response[n].level), path,
                  response[n].start_line, response[n].end_line, response[n].title)]

\* Engine._response_to_issues: an issue whose construction raises is skipped
_response_to_issues(response, path) ==
    LET Good(ci) == ci.level \in LevelValues
        ok == SelectSeq(response, Good)
    IN  [n \in 1..Len(ok) |->
            Issue(ok[n].rule_id, IssueLevel(ok[n].level), path,
                  ok[n].start_line, ok[n].end_line, ok[n].title)]

(***************************************************************************)
(* Filtering, deduplication, the cap per file                              *)
(***************************************************************************)
\* f in issue.rule_id, for the strings of the model
ProperSubstrings ==
    {<<"n-plus-one", "django/n-plus-one">>, <<"django", "django/n-plus-one">>,
     <<"python", "python/other-rule">>, <<"other", "python/other-rule">>}

Contains(needle, hay) == needle = hay \/ <<needle, hay>> \in ProperSubstrings

ApplyRuleFilterSkipped(issues, rule_filter) == issues

\* step 5 of analyze
ApplyRuleFilter(issues, rule_filter) ==
    LET Keep(i) == \E n \in 1..Len(rule_filter) : Contains(rule_filter[n], i.rule_id)
    IN  IF rule_filter # <<>> THEN SelectSeq(issues, Keep) ELSE issues

FilterDisabledSkipped(issues, disabled_rules) == issues

\* step 6 of analyze
FilterDisabled(issues, disabled_rules) ==
    LET Keep(i) == i.rule_id \notin disabled_rules
    IN  IF disabled_rules # {} THEN SelectSeq(issues, Keep) ELSE issues

\* Issue.issue_id: the identity of a finding
issue_id(i) == <<i.rule_id, i.path, i.start_line, i.end_line, i.title>>

RECURSIVE DedupFrom(_, _, _)
DedupFrom(issues, seen, unique) ==
    IF issues = <<>> THEN unique
    ELSE LET i == Head(issues)
         IN  IF issue_id(i) \in seen THEN DedupFrom(Tail(issues), seen, unique)
             ELSE DedupFrom(Tail(issues), seen \cup {issue_id(i)}, Append(unique, i))

_deduplicate_first_only(issues) == IF issues = <<>> THEN <<>> ELSE <<Head(issues)>>

RECURSIVE DedupKeepLast(_)
DedupKeepLast(issues) ==
    IF issues = <<>> THEN <<>>
    ELSE IF \E n \in 2..Len(issues) : issue_id(issues[n]) = issue_id(Head(issues))
    THEN DedupKeepLast(Tail(issues))
    ELSE <<Head(issues)>> \o DedupKeepLast(Tail(issues))

_deduplicate_keep_last(issues) == DedupKeepLast(issues)

\* Engine._deduplicate
_deduplicate(issues) == DedupFrom(issues, {}, <<>>)

MAX_ISSUES_PER_FILE == 10

\* SQLiteCache(cache_path, ttl_hours=168)
ENGINE_TTL_HOURS == 168

severity_order == <<"blocker", "critical", "major", "minor", "info">>

\* file_issues.sort(key=severity): a stable sort
RECURSIVE SortFrom(_, _)
SortFrom(issues, n) ==
    IF n > Len(severity_order) THEN <<>>
    ELSE LET Has(i) == LevelValue(i.level) = severity_order[n]
         IN  SelectSeq(issues, Has) \o SortFrom(issues, n + 1)

SortBySeverityNot(issues) == issues

SortBySeverity(issues) == SortFrom(issues, 1)

Take(seq, n) == SubSeq(seq, 1, IF Len(seq) < n THEN Len(seq) ELSE n)

\* the keys of by_file, in the order of their first issue
RECURSIVE PathsOf(_, _)
PathsOf(issues, paths) ==
    IF issues = <<>> THEN paths
    ELSE PathsOf(Tail(issues),
                 IF \E n \in 1..Len(paths) : paths[n] = Head(issues).path
                 THEN paths ELSE Append(paths, Head(issues).path))

RECURSIVE LimitFrom(_, _)
LimitFrom(issues, paths) ==
    IF paths = <<>> THEN <<>>
    ELSE LET Of(i) == i.path = Head(paths)
         IN  Take(SortBySeverity(SelectSeq(issues, Of)), MAX_ISSUES_PER_FILE)
                \o LimitFrom(issues, Tail(paths))

\* Engine._limit_per_file
_limit_per_file(issues) == LimitFrom(issues, PathsOf(issues, <<>>))

(***************************************************************************)
(* Scoring                                                                 *)
(***************************************************************************)
LEVEL_WEIGHTS(l) ==
    CASE l = "BLOCKER" -> 25
      [] l = "CRITICAL" -> 15
      [] l = "MAJOR" -> 8
      [] l = "MINOR" -> 3
      [] l = "INFO" -> 0

DEFAULT_FAIL_LEVELS == <<"BLOCKER", "CRITICAL", "MAJOR">>

DEFAULT_SCORE_THRESHOLD == 70

RECURSIVE Penalty(_)
Penalty(issues) ==
    IF issues = <<>> THEN 0 ELSE LEVEL_WEIGHTS(Head(issues).level) + Penalty(Tail(issues))

calculate_score_unfloored(issues) ==
    IF issues = <<>> THEN 100 ELSE 100 - Penalty(issues)

calculate_score(issues) ==
    IF issues = <<>> THEN 100
    ELSE IF 100 - Penalty(issues) > 0 THEN 100 - Penalty(issues) ELSE 0

\* a reason: "<n> <level> issue(s)" or "Score <n> below threshold"
LevelReason(level, n) == [kind |-> "level", level |-> LevelValue(level), n |-> n]

ScoreReason(score) == [kind |-> "score", level |-> None, n |-> score]

RECURSIVE LevelReasons(_, _)
LevelReasons(issues, fail_levels) ==
    IF fail_levels = <<>> THEN <<>>
    ELSE LET level == IF Head(fail_levels) \in LevelValues
                      THEN IssueLevel(Head(fail_levels)) ELSE Head(fail_levels)
             Is(i) == i.level = level
             count == Len(SelectSeq(issues, Is))
         IN  (IF count > 0 THEN <<LevelReason(level, count)>> ELSE <<>>)
                \o LevelReasons(issues, Tail(fail_levels))

check_gate_levels_only(issues, fail_levels, score_threshold) ==
    LET levels == IF fail_levels = Absent THEN DEFAULT_FAIL_LEVELS ELSE fail_levels[1]
        reasons == LevelReasons(issues, levels)
    IN  [passed |-> reasons = <<>>, reasons |-> reasons]

\* check_gate(issues, fail_levels=None, score_threshold=None): an argument is
\* Absent for None, Some(value) otherwise
check_gate(issues, fail_levels, score_threshold) ==
    LET levels == IF fail_levels = Absent THEN DEFAULT_FAIL_LEVELS ELSE fail_levels[1]
        threshold == IF score_threshold = Absent THEN DEFAULT_SCORE_THRESHOLD
                     ELSE score_threshold[1]
        score == calculate_score(issues)
        reasons == LevelReasons(issues, levels)
                    \o (IF score < threshold THEN <<ScoreReason(score)>> ELSE <<>>)
    IN  [passed |-> reasons = <<>>, reasons |-> reasons]

\* ScoreCalculator(fail_levels, score_threshold): x or DEFAULT takes the default
\* for None and for every other falsy x, the empty list and 0
ScoreCalculator(fail_levels, score_threshold) ==
    [fail_levels |-> IF fail_levels = Absent \/ fail_levels = Some(<<>>)
                     THEN DEFAULT_FAIL_LEVELS ELSE fail_levels[1],
     score_threshold |-> IF score_threshold = Absent \/ score_threshold = Some(0)
                         THEN DEFAULT_SCORE_THRESHOLD ELSE score_threshold[1]]

\* ScoreCalculator.check_gate(self, issues)
Scorer_check_gate(self, issues) ==
    check_gate(issues, Some(self.fail_levels), Some(self.score_threshold))

\* ScoreCalculator(): the engine's scorer, with the defaults
ScoreCalculator_check_gate(issues) ==
    check_gate(issues, Some(DEFAULT_FAIL_LEVELS), Some(DEFAULT_SCORE_THRESHOLD))

(***************************************************************************)
(* One unit of work: a file, the provider's outcome for it, its findings.  *)
(***************************************************************************)
FileContext(path, content) == [path |-> path, content |-> content]

\* what complete_structured_sync and model_validate do for one call: "ok" with a
\* response, "error" (the provider raises) or "invalid" (validation raises)
Outcome(kind, response) == [kind |-> kind, response |-> response]

NoCall == Outcome("none", <<>>)

_analyze_file_sync_leaky(file_ctx, composed_pack, outcome) ==
    LET rules == get_rules_for_file(composed_pack, file_ctx.path, file_ctx.content)
    IN  IF rules = <<>> THEN [issues |-> <<>>, called |-> FALSE, logged |-> FALSE]
        ELSE IF outcome.kind = "ok"
        THEN [issues |-> _response_to_issues(outcome.response, file_ctx.path),
              called |-> TRUE, logged |-> TRUE]
        ELSE [issues |-> <<Issue(rules[1].id, "INFO", file_ctx.path, 1, 1, outcome.kind)>>,
              called |-> TRUE, logged |-> FALSE]

\* Engine._analyze_file_sync: the findings returned, whether the provider was
\* called, whether the call was logged
_analyze_file_sync(file_ctx, composed_pack, outcome) ==
    LET rules == get_rules_for_file(composed_pack, file_ctx.path, file_ctx.content)
    IN  IF rules = <<>> THEN [issues |-> <<>>, called |-> FALSE, logged |-> FALSE]
        ELSE IF outcome.kind = "ok"
        THEN [issues |-> _response_to_issues(outcome.response, file_ctx.path),
              called |-> TRUE, logged |-> TRUE]
        ELSE [issues |-> <<>>, called |-> TRUE, logged |-> FALSE]

\* the arguments of the log_llm_call of a successful call
EngineLogArgs(file_ctx, composed_pack, outcome, issues) ==
    [model |-> "mock/test-model", pack |-> composed_pack.name,
     files |-> <<file_ctx.path>>, prompt_tokens |-> Len(file_ctx.content),
     completion_tokens |-> Len(outcome.response), duration_ms |-> 0,
     issues_found |-> Len(issues), cost_usd |-> NoCost]

\* the cache key of a file under a composed pack
CacheKey(file_ctx, composed_pack) ==
    <<hash_content(file_ctx.content), composed_pack.version,
      hash_rules(RuleIds(composed_pack))>>

\* step 3 of analyze: one cache.get per file, in discovery order
RECURSIVE CheckCache(_, _, _, _, _, _)
CheckCache(files, composed_pack, rows, t, ttl, acc) ==
    IF files = <<>> THEN [acc EXCEPT !.rows = rows]
    ELSE LET got == CacheGet(rows, t, ttl, CacheKey(Head(files), composed_pack))
         IN  CheckCache(Tail(files), composed_pack, got.rows, t, ttl,
                IF got.ret # Absent
                THEN [acc EXCEPT !.all_issues = @ \o got.ret[1],
                                 !.hit_paths = Append(@, Head(files).path)]
                ELSE [acc EXCEPT !.uncached_files = Append(@, Head(files))])

CacheResultsIfFound(rows, t, file_ctx, composed_pack, issues) ==
    IF issues = <<>> THEN rows
    ELSE CachePut(rows, t, CacheKey(file_ctx, composed_pack), issues)

CacheResultsMerged(rows, t, file_ctx, composed_pack, issues) ==
    LET k == CacheKey(file_ctx, composed_pack)
        old == {r \in rows : KeyOf(r) = k}
    IN  IF old = {} THEN CachePut(rows, t, k, issues)
        ELSE CachePut(rows, t, k,
                      IssuesFromJson((CHOOSE r \in old : TRUE).issues_json) \o issues)

CacheResultsNever(rows, t, file_ctx, composed_pack, issues) == rows

\* the cache.put of the as_completed loop
CacheResults(rows, t, file_ctx, composed_pack, issues) ==
    CachePut(rows, t, CacheKey(file_ctx, composed_pack), issues)

Min(a, b) == IF a < b THEN a ELSE b

\* the AnalysisResult, or the error analyze raised
AnalysisResult(raised, issues, score, gate, files_analyzed, cache_hits, llm_calls) ==
    [raised |-> raised, issues |-> issues, score |-> score,
     gate_passed |-> gate.passed, fail_reasons |-> gate.reasons,
     meta |-> [files_analyzed |-> files_analyzed, cache_hits |-> cache_hits,
               llm_calls |-> llm_calls]]

EarlyResultUnscored ==
    AnalysisResult(None, <<>>, 0, [passed |-> FALSE, reasons |-> <<>>], 0, 0, 0)

\* the AnalysisResult of a run whose discovery found no file
EarlyResult ==
    AnalysisResult(None, <<>>, 100, [passed |-> TRUE, reasons |-> <<>>], 0, 0, 0)

\* steps 5 to 8 of analyze
PostProcess(all_issues, rule_filter, disabled_rules) ==
    _limit_per_file(_deduplicate(
        FilterDisabled(ApplyRuleFilter(all_issues, rule_filter), disabled_rules)))

\* progress(step, details): on_progress(step, details) if there is an observer
ObserverRaises(cfg, step) == cfg.on_progress = step

ObserverError == "Exception: raised by on_progress"

\* what the caller of analyze gets when it raises
Raised(error) ==
    AnalysisResult(error, <<>>, 0, [passed |-> FALSE, reasons |-> <<>>], 0, 0, 0)

FinalizeScoredFirst(all_issues, cfg, files_analyzed, cache_hits, llm_calls) ==
    AnalysisResult(None, PostProcess(all_issues, cfg.rule_filter, cfg.disabled_rules),
                   calculate_score(all_issues), ScoreCalculator_check_gate(all_issues),
                   files_analyzed, cache_hits, llm_calls)

\* steps 5 to 9 of analyze and its return
Finalize(all_issues, cfg, files_analyzed, cache_hits, llm_calls) ==
    LET issues == PostProcess(all_issues, cfg.rule_filter, cfg.disabled_rules)
    IN  AnalysisResult(None, issues, calculate_score(issues),
                       ScoreCalculator_check_gate(issues),
                       files_analyzed, cache_hits, llm_calls)

\* progress("complete", ...) and the return of analyze
Complete(cfg, res) ==
    IF ObserverRaises(cfg, "complete") THEN Raised(ObserverError) ELSE res

(***************************************************************************)
(* The engine's inputs: workspaces, configurations, provider answers       *)
(***************************************************************************)
MaxLiveRuns == 3
MaxRuns == 2

TickHours == 100

MaxEngineNow == 200

FooContent == <<Line(0, FooText, 0)>>

BarContent == <<Line(0, BarText, 0)>>

\* a content that no rule applies to
NotesContent == <<Line(0, "# notes", 0)>>

Paths == {"a.py", "b.py", "c.py"}

Workspaces ==
    {<<>>,
     <<FileContext("a.py", FooContent)>>,
     <<FileContext("a.py", FooContent), FileContext("b.py", FooContent)>>,
     <<FileContext("a.py", FooContent), FileContext("b.py", BarContent)>>,
     <<FileContext("a.py", FooContent), FileContext("c.py", NotesContent)>>}

\* DinocheckConfig, the provider's max_concurrent, the rule_filter of analyze,
\* its on_progress ("none": no observer), and the number of times analyze is
\* called
Config(packs, max_llm_calls, max_concurrent, disabled_rules, rule_filter) ==
    [packs |-> packs, max_llm_calls |-> max_llm_calls,
     max_concurrent |-> max_concurrent, disabled_rules |-> disabled_rules,
     rule_filter |-> rule_filter, on_progress |-> "none", runs |-> MaxRuns]

\* an observer is the progress step at which it raises ("never": it returns
\* from every call)
WithObserver(cfg, observer) == [cfg EXCEPT !.on_progress = observer]

BothPacks == <<"python", "django">>

Configs ==
    {Config(BothPacks, c, w, {}, <<>>) : c \in 0..2, w \in 1..2}
    \cup {Config(BothPacks, 2, 2, {"python/other-rule"}, <<>>),
          Config(BothPacks, 2, 2, {}, <<"n-plus-one">>),
          Config(BothPacks, 2, 2, {"django/n-plus-one"}, <<"django", "other">>),
          Config(<<"django">>, 2, 2, {}, <<>>),
          Config(<<"missing">>, 2, 2, {}, <<>>),
          Config(BothPacks, 0 - 1, 1, {}, <<>>),
          Config(<<"python", "missing">>, 2, 2, {}, <<>>)}

\* max_llm_calls and max_concurrent at least 1, analyze called MaxLiveRuns times
LiveConfigs ==
    {[Config(BothPacks, c, w, {}, <<>>) EXCEPT !.runs = MaxLiveRuns] : c \in 1..2, w \in 1..2}

ObservedConfigs ==
    {WithObserver(Config(BothPacks, 2, 2, {}, <<>>), o) :
        o \in {"never", "compose_packs", "complete"}}

n_plus_one == CriticIssue("django/n-plus-one", "major", 5, 7, "N+1 query")

other_rule == CriticIssue("python/other-rule", "minor", 1, 1, "Other")

bad_level == CriticIssue("django/n-plus-one", "severe", 2, 2, "Bad level")

Responses == {<<>>, <<other_rule, n_plus_one>>, <<bad_level, n_plus_one>>}

Outcomes ==
    {Outcome("ok", r) : r \in Responses}
    \cup {Outcome("error", <<>>), Outcome("invalid", <<>>)}

\* the locals of analyze while no run is in progress
IdleRun ==
    [pack |-> <<>>, started_at |-> 0, all_issues |-> <<>>, hit_paths |-> <<>>,
     uncached_files |-> <<>>, max_workers |-> 0, llm_calls |-> 0, order |-> <<>>,
     ok_before |-> [p \in Paths |-> Absent]]

\* what the runs so far have done: their number, per path the time of the last
\* put that followed a successful call (Absent after a clear), the previous
\* result, whether the clock or the cache changed since the last return, and
\* the file edited between the runs with its content before the edit
InitHist ==
    [runs |-> 0, okAt |-> [p \in Paths |-> Absent], prev |-> Absent,
     quiet |-> FALSE, immediate |-> FALSE, edit |-> Absent]

(***************************************************************************)
(* A Migrator over any tuple of migrations                                 *)
(***************************************************************************)
MaxMigrations == 3   \* migrations of the Migrator
MaxApplied == 4      \* migration applications after which no call begins

PendingRangeFromOne(current, target) == [k \in 1..target |-> k]

\* range(current, target): self._migrations[i] upgrades to version i + 1
PendingRange(current, target) == [k \in 1..(target - current) |-> current + k]

\* no Migrator: count is len(self._migrations), version the user_version of the
\* store, applied the migrations applied to the store so far, pending the
\* apply_pending call in progress and last the state of the last call
NoMigrator ==
    [count |-> 0, version |-> 0, applied |-> <<>>, pending |-> Absent, last |-> Absent]

\* the post-processing steps not called: no findings
NoPost == [issues |-> <<>>, deduplicated |-> Absent, limited |-> Absent]

\* calculate_score and check_gate not called: no findings, no score, no gate
Scoring(issues, score, gate) ==
    [issues |-> issues, score |-> score, gate |-> gate, scorer_gate |-> Absent]

NoScoring == Scoring(<<>>, Absent, Absent)

\* no engine on the store, no call of the scoring functions
EngineIdle ==
    /\ workspace = <<>>
    /\ config = Config(BothPacks, 0, 1, {}, <<>>)
    /\ pc = "idle"
    /\ run = IdleRun
    /\ units = <<>>
    /\ result = Absent
    /\ hist = InitHist
    /\ scoring = NoScoring
    /\ migrator = NoMigrator
    /\ post = NoPost

(***************************************************************************)
(* The store specification: one database file, opened and used through     *)
(* SQLiteCache and Migrator.                                               *)
(***************************************************************************)
sample_issue == Issue("test/rule", "MAJOR", "test.py", 10, 15, "Test issue")

new_issue == Issue("test/other", "MINOR", "test.py", 5, NoLine, "Other issue")

StoreIssueLists == {<<>>, <<sample_issue>>, <<sample_issue, new_issue>>}

\* a base key and one key per component that differs from it
StoreKeys ==
    {<<"hash1", "composed", "rules1">>, <<"hash2", "composed", "rules1">>,
     <<"hash1", "local", "rules1">>, <<"hash1", "composed", "rules2">>}

StoreLogArgs ==
    {[model |-> "gpt-4o-mini", pack |-> "django", files |-> <<"views.py">>,
      prompt_tokens |-> 100, completion_tokens |-> 50, duration_ms |-> 1500,
      issues_found |-> 3, cost_usd |-> NoCost],
     [model |-> "mock/test-model", pack |-> "django", files |-> <<"models.py">>,
      prompt_tokens |-> 800, completion_tokens |-> 400, duration_ms |-> 1200,
      issues_found |-> 2, cost_usd |-> 8]}

\* a row of a legacy llm_logs table
LegacyLogRow ==
    [c \in LegacyColumns |->
        CASE c = "id" -> 1
          [] c = "timestamp" -> 0
          [] c = "model" -> "gpt-4o-mini"
          [] c = "pack" -> "django"
          [] c = "files_json" -> <<"views.py">>
          [] c = "prompt_tokens" -> 100
          [] c = "completion_tokens" -> 50
          [] c = "total_tokens" -> 150
          [] c = "cost_usd" -> 1
          [] c = "duration_ms" -> 1500
          [] c = "issues_found" -> 3
          [] c = "cached" -> 0
          [] c = "prompt_text" -> "prompt"
          [] c = "response_text" -> "response"]

LegacyLogs == {[n \in 1..m |-> [LegacyLogRow EXCEPT !["id"] = n]] : m \in 0..MaxLegacyLogs}

LegacyCaches == {{}, {CacheRow("hash1", "composed", "rules1", <<sample_issue>>, 0)}}

FileSnapshot ==
    [user_version |-> user_version, log_columns |-> log_columns,
     llm_logs |-> llm_logs, cache |-> cache]

\* the last store operation: its name, its key argument (<<>> if none), the issue
\* list it took or returned (Absent if none), the number it took or returned (0 if
\* none) and the error it raised (None if none)
Call(op, key, issues, count, raised) ==
    [op |-> op, key |-> key, issues |-> issues, count |-> count, raised |-> raised]

\* the state after SQLiteCache(db_path, ttl_hours=1) on a path with no file
InitStore ==
    LET res == OpenStore(Conn(0, {}, <<>>))
    IN  /\ now = 0
        /\ ttl_hours = 1
        /\ opened = TRUE
        /\ user_version = res.conn.user_version
        /\ log_columns = res.conn.log_columns
        /\ llm_logs = res.conn.llm_logs
        /\ cache = {}
        /\ lastPut = [k \in StoreKeys |-> Absent]
        /\ pre = [user_version |-> 0, log_columns |-> {}, llm_logs |-> <<>>, cache |-> {}]
        /\ call = Call("init", <<>>, Absent, 0, None)
        /\ EngineIdle

\* a database file on disk before any SQLiteCache is constructed on it: none yet,
\* or one with the legacy schema, at version 0 or stamped with a later version by
\* Migrator.set_version
InitMig ==
    /\ now = 0
    /\ ttl_hours = 1
    /\ opened = FALSE
    /\ \/ user_version = 0 /\ log_columns = {} /\ llm_logs = <<>> /\ cache = {}
       \/ /\ user_version \in 0..CURRENT_VERSION
          /\ log_columns = LegacyColumns
          /\ llm_logs \in LegacyLogs
          /\ cache \in LegacyCaches
    /\ lastPut = [k \in StoreKeys |->
                    IF \E r \in cache : KeyOf(r) = k
                    THEN Some([issues |-> <<sample_issue>>, at |-> 0])
                    ELSE Absent]
    /\ pre = FileSnapshot
    /\ call = Call("init", <<>>, Absent, 0, None)
    /\ EngineIdle

\* SQLiteCache(db_path, ttl_hours=1)
Open ==
    LET res == OpenStore(Conn(user_version, log_columns, llm_logs))
    IN  /\ pre' = FileSnapshot
        /\ user_version' = res.conn.user_version
        /\ log_columns' = res.conn.log_columns
        /\ llm_logs' = res.conn.llm_logs
        /\ opened' = (opened \/ res.raised = None)
        /\ call' = Call("open", <<>>, Absent, CURRENT_VERSION, res.raised)
        /\ UNCHANGED <<cache, now, ttl_hours, lastPut, engineVars, scoreVars, libVars>>

\* Migrator(MIGRATIONS).apply_pending(conn, target) on a connection to the file
ApplyPending(target) ==
    LET res == apply_pending(Conn(user_version, log_columns, llm_logs), target)
    IN  /\ pre' = FileSnapshot
        /\ user_version' = res.conn.user_version
        /\ log_columns' = res.conn.log_columns
        /\ llm_logs' = res.conn.llm_logs
        /\ call' = Call("apply_pending", <<>>, Absent, target, res.raised)
        /\ UNCHANGED <<cache, now, ttl_hours, opened, lastPut, engineVars, scoreVars, libVars>>

Put(k, issues) ==
    /\ opened
    /\ Cardinality(cache) < MaxRows \/ \E r \in cache : KeyOf(r) = k
    /\ cache' = CachePut(cache, now, k, issues)
    /\ lastPut' = [lastPut EXCEPT ![k] = Some([issues |-> issues, at |-> now])]
    /\ call' = Call("put", k, Some(issues), 0, None)
    /\ UNCHANGED <<llm_logs, log_columns, user_version, now, ttl_hours, opened, pre, engineVars, scoreVars, libVars>>

Get(k) ==
    LET res == CacheGet(cache, now, ttl_hours, k)
    IN  /\ opened
        /\ cache' = res.rows
        /\ call' = Call("get", k, res.ret, 0, None)
        /\ UNCHANGED <<llm_logs, log_columns, user_version, now, ttl_hours, opened, histVars, engineVars, scoreVars, libVars>>

Clear ==
    LET res == CacheClear(cache, llm_logs)
    IN  /\ opened
        /\ cache' = res.rows
        /\ llm_logs' = res.logs
        /\ lastPut' = [k \in StoreKeys |-> Absent]
        /\ call' = Call("clear", <<>>, Absent, res.count, None)
        /\ UNCHANGED <<log_columns, user_version, now, ttl_hours, opened, pre, engineVars, scoreVars, libVars>>

Stats ==
    /\ opened
    /\ call' = Call("stats", <<>>, Absent, CacheStats(cache).entries, None)
    /\ UNCHANGED <<cache, llm_logs, log_columns, user_version, now, ttl_hours, opened, histVars, engineVars, scoreVars, libVars>>

LogCall(a) ==
    LET res == LogLlmCall(llm_logs, log_columns, now, a)
    IN  /\ opened
        /\ Len(llm_logs) < MaxLogs
        /\ llm_logs' = res.logs
        /\ call' = Call("log_llm_call", <<>>, Absent, res.ret, None)
        /\ UNCHANGED <<cache, log_columns, user_version, now, ttl_hours, opened, histVars, engineVars, scoreVars, libVars>>

GetLogs(limit) ==
    /\ opened
    /\ call' = Call("get_llm_logs", <<>>, Absent, Len(GetLlmLogs(llm_logs, limit)), None)
    /\ UNCHANGED <<cache, llm_logs, log_columns, user_version, now, ttl_hours, opened, histVars, engineVars, scoreVars, libVars>>

CostSummary(days) ==
    /\ opened
    /\ call' = Call("get_cost_summary", <<>>, Absent, GetCostSummary(llm_logs, now, days).total_calls, None)
    /\ UNCHANGED <<cache, llm_logs, log_columns, user_version, now, ttl_hours, opened, histVars, engineVars, scoreVars, libVars>>

\* an hour passes
Tick ==
    /\ now < MaxNow
    /\ now' = now + 1
    /\ UNCHANGED <<cache, llm_logs, log_columns, user_version, ttl_hours, opened, call, histVars, engineVars, scoreVars, libVars>>

NextStore ==
    \/ \E k \in StoreKeys, issues \in StoreIssueLists : Put(k, issues)
    \/ \E k \in StoreKeys : Get(k)
    \/ Clear
    \/ Stats
    \/ \E a \in StoreLogArgs : LogCall(a)
    \/ GetLogs(10)
    \/ CostSummary(30)
    \/ Tick

SpecStore == InitStore /\ [][NextStore]_vars

NextMig ==
    \/ Open
    \/ \E target \in 0..(Len(MIGRATIONS) + 1) : ApplyPending(target)
    \/ \E k \in StoreKeys, issues \in StoreIssueLists : Put(k, issues)
    \/ \E a \in StoreLogArgs : LogCall(a)
    \/ GetLogs(10)

SpecMig == InitMig /\ [][NextMig]_vars

(***************************************************************************)
(* Properties of the result store (specification SpecStore)                *)
(***************************************************************************)
StoreGet(k) == CacheGet(cache, now, ttl_hours, k).ret

\* a step that is the store operation op (the clock alone moves in every other step)
OpStep(op) == now' = now /\ call'.op = op

Live(k) == lastPut[k] # Absent /\ now - lastPut[k][1].at <= ttl_hours

\* C4: a get on key k after put(k, F), with no later put or clear on k and before
\* expiry, returns a list equal to F (length, order, fields); for F = [] it returns
\* the empty list, not None.
C4_RoundTrip ==
    \A k \in StoreKeys : Live(k) => StoreGet(k) = Some(lastPut[k][1].issues)

C4_Witness ==
    /\ call.op = "get"
    /\ call.issues = Some(<<>>)
    /\ \E k \in StoreKeys :
          Live(k) /\ lastPut[k][1].issues = <<sample_issue, new_issue>>

C7_NonSlidingExpiry ==
    /\ [](\A k \in StoreKeys : (StoreGet(k) # Absent) <=> Live(k))
    /\ [][OpStep("get") => cache' = cache]_vars
    /\ [][OpStep("put") =>
            \A r \in cache' : KeyOf(r) = call'.key => r.created_at = now]_vars

C7_Witness ==
    /\ call.op = "get"
    /\ call.issues = Absent
    /\ lastPut[call.key] # Absent
    /\ now - lastPut[call.key][1].at = ttl_hours + 1

\* C8: clear() returns the number of cache rows there were, and after it every get
\* returns None and stats().entries is 0.
C8_Clear ==
    [][OpStep("clear") =>
        /\ call'.count = Cardinality(cache)
        /\ \A k \in StoreKeys : CacheGet(cache', now', ttl_hours', k).ret = Absent
        /\ CacheStats(cache').entries = 0]_vars

C8_Witness == call.op = "clear" /\ call.count = 2 /\ cache = {}

Without(row, cols) == [c \in (DOMAIN row) \ cols |-> row[c]]

LegacyAtZero(f) == f.user_version = 0 /\ RemovedColumns \subseteq f.log_columns

\* C10: one open of a store at version 0 that still has prompt_text and
\* response_text leaves it without those columns, with every call-log row and cache
\* row still there and their other fields unchanged, and at the latest version.
C10_LegacyOpen ==
    (call.op = "open" /\ LegacyAtZero(pre)) =>
        /\ log_columns = pre.log_columns \ RemovedColumns
        /\ Len(llm_logs) = Len(pre.llm_logs)
        /\ \A n \in 1..Len(llm_logs) : llm_logs[n] = Without(pre.llm_logs[n], RemovedColumns)
        /\ cache = pre.cache
        /\ user_version = CURRENT_VERSION
        /\ call.raised = None

C10_Witness ==
    /\ call.op = "open"
    /\ LegacyAtZero(pre)
    /\ pre.llm_logs # <<>>
    /\ pre.cache # {}

MigrationCall == call.op = "open" \/ (call.op = "apply_pending" /\ call.count = CURRENT_VERSION)

\* C11: apply_pending to the latest version, or an open, on a store that is already
\* at the latest version raises nothing and leaves version, rows and columns as
\* they were (an open creates the tables of a file that has none); so a second
\* run of the migration path changes nothing.
C11_MigrationIdempotent ==
    (MigrationCall /\ pre.user_version = CURRENT_VERSION) =>
        /\ call.raised = None
        /\ user_version = pre.user_version
        /\ llm_logs = pre.llm_logs
        /\ cache = pre.cache
        /\ log_columns = IF call.op = "open" /\ pre.log_columns = {}
                         THEN CurrentColumns ELSE pre.log_columns

\* the migration path ran on a store at the latest version that holds call-log
\* rows with the columns the first migration removes
C11_Witness ==
    /\ MigrationCall
    /\ pre.user_version = CURRENT_VERSION
    /\ RemovedColumns \subseteq pre.log_columns
    /\ pre.llm_logs # <<>>

\* the migration path ran twice in a row on a legacy store: the second run found
\* the store as the first left it
C11_WitnessTwice ==
    /\ MigrationCall
    /\ pre.user_version = CURRENT_VERSION
    /\ pre.log_columns = CurrentColumns
    /\ pre.llm_logs # <<>>

\* C12: apply_pending with a target above the number of known migrations raises,
\* and so does apply_pending with a target below the store's version; in both
\* cases the file is left as it was: no column dropped, no row changed, the
\* version stamp unchanged.
C12_ApplyPendingErrors ==
    call.op = "apply_pending" =>
        /\ call.count > Len(MIGRATIONS) =>
                /\ call.raised = "ValueError: exceeds available migrations"
                /\ FileSnapshot = pre
        /\ call.count < pre.user_version =>
                /\ call.raised = "ValueError: downgrade not supported"
                /\ FileSnapshot = pre

\* apply_pending was called with a target beyond the known migrations on a legacy
\* store at version 0 that holds call-log rows
C12_Witness ==
    /\ call.op = "apply_pending"
    /\ call.count > Len(MIGRATIONS)
    /\ LegacyAtZero(pre)
    /\ pre.llm_logs # <<>>
    /\ call.raised # None

\* apply_pending was called with a target below the version of the store
C12_WitnessDowngrade ==
    /\ call.op = "apply_pending"
    /\ call.count < pre.user_version
    /\ call.raised # None

\* C13: no step of the store's lifetime (opens, apply_pending calls with any
\* target, succeeding or raising) lowers the version stamp.
C13_VersionMonotone == [][user_version' >= user_version]_vars

\* a call raised the version, and a later apply_pending asked for a lower one
C13_Witness ==
    /\ call.op = "apply_pending"
    /\ call.count < pre.user_version
    /\ pre.log_columns = CurrentColumns
    /\ pre.llm_logs # <<>>
    /\ user_version = CURRENT_VERSION


(***************************************************************************)
(* The engine specification: one Engine on a fresh store, its workspace    *)
(* and its configuration fixed, analyze called up to MaxRuns times.        *)
(***************************************************************************)
\* the state after Engine(config): SQLiteCache(cache_path, ttl_hours=168)
EngineInit(configs) ==
    LET res == OpenStore(Conn(0, {}, <<>>))
    IN  /\ now = 0
        /\ ttl_hours = ENGINE_TTL_HOURS
        /\ opened = TRUE
        /\ user_version = res.conn.user_version
        /\ log_columns = res.conn.log_columns
        /\ llm_logs = res.conn.llm_logs
        /\ cache = {}
        /\ lastPut = [k \in StoreKeys |-> Absent]
        /\ pre = [user_version |-> 0, log_columns |-> {}, llm_logs |-> <<>>, cache |-> {}]
        /\ call = Call("init", <<>>, Absent, 0, None)
        /\ workspace \in Workspaces
        /\ config \in configs
        /\ pc = "idle"
        /\ run = IdleRun
        /\ units = <<>>
        /\ result = Absent
        /\ hist = InitHist
        /\ scoring = NoScoring
        /\ migrator = NoMigrator
        /\ post = NoPost

Init == EngineInit(Configs)

\* the same, analyze being called with an on_progress observer
InitObserved == EngineInit(ObservedConfigs)

Unit(file_ctx) ==
    [file |-> file_ctx, state |-> "queued", outcome |-> NoCall, issues |-> <<>>]

\* the run dispatched every cache miss and every provider call succeeded
RunComplete ==
    /\ Len(units) = Len(run.uncached_files)
    /\ \A n \in 1..Len(units) : units[n].outcome.kind \in {"ok", "none"}

\* a run begins with what the history says of the one before it
Began ==
    [hist EXCEPT
        !.prev = IF result = Absent THEN Absent
                 ELSE Some([result |-> result[1], complete |-> RunComplete]),
        !.immediate = hist.quiet]

\* a run returns
Ended(h) == [h EXCEPT !.runs = @ + 1, !.quiet = TRUE]

\* Engine.analyze up to the dispatch: steps 1 to 3, and the whole call when it
\* raises, finds no file or dispatches nothing
StartAnalyze ==
    LET composed == compose(config.packs)
        files == workspace
        part == CheckCache(files, composed.pack, cache, now, ttl_hours,
                           [IdleRun EXCEPT !.pack = composed.pack, !.started_at = now,
                                           !.ok_before = hist.okAt]
                                @@ [rows |-> cache])
        max_calls == config.max_llm_calls
        max_workers == Min(config.max_concurrent, Min(max_calls, Len(part.uncached_files)))
        locals == [f \in DOMAIN IdleRun |-> IF f = "max_workers" THEN max_workers ELSE part[f]]
        files_to_analyze == Take(part.uncached_files, max_calls)
        error == IF ObserverRaises(config, "compose_packs") THEN ObserverError
                 ELSE composed.raised
    IN  /\ pc = "idle"
        /\ hist.runs < config.runs
        /\ IF error # None
           THEN /\ result' = Some(Raised(error))
                /\ hist' = Ended(Began)
                /\ run' = IdleRun
                /\ units' = <<>>
                /\ UNCHANGED <<pc, cache>>
           ELSE IF files = <<>>
           THEN /\ result' = Some(EarlyResult)
                /\ hist' = Ended(Began)
                /\ run' = [IdleRun EXCEPT !.pack = composed.pack, !.started_at = now,
                                          !.ok_before = hist.okAt]
                /\ units' = <<>>
                /\ UNCHANGED <<pc, cache>>
           ELSE /\ cache' = part.rows
                /\ run' = locals
                /\ IF part.uncached_files # <<>> /\ max_calls > 0
                   THEN /\ units' = [n \in 1..Len(files_to_analyze) |->
                                        Unit(files_to_analyze[n])]
                        /\ pc' = "collecting"
                        /\ hist' = Began
                        /\ UNCHANGED result
                   ELSE /\ units' = <<>>
                        /\ result' = Some(Complete(config,
                                        Finalize(part.all_issues, config, Len(files),
                                                 Len(part.hit_paths), 0)))
                        /\ hist' = Ended(Began)
                        /\ UNCHANGED pc
        /\ UNCHANGED <<workspace, config, llm_logs, log_columns, user_version, now,
                       ttl_hours, opened, call, histVars, scoreVars, libVars>>

Running == {n \in 1..Len(units) : units[n].state = "running"}

Queued == {n \in 1..Len(units) : units[n].state = "queued"}

WorkerStartUnbounded(n) ==
    /\ pc = "collecting"
    /\ n \in Queued
    /\ \A m \in Queued : n <= m
    /\ units' = [units EXCEPT ![n].state = "running"]
    /\ UNCHANGED <<storeVars, histVars, scoreVars, libVars, workspace, config, pc, run, result, hist>>

\* a worker thread of the pool takes the next submitted task
WorkerStart(n) ==
    /\ pc = "collecting"
    /\ n \in Queued
    /\ \A m \in Queued : n <= m
    /\ Cardinality(Running) < run.max_workers
    /\ units' = [units EXCEPT ![n].state = "running"]
    /\ UNCHANGED <<storeVars, histVars, scoreVars, libVars, workspace, config, pc, run, result, hist>>

\* the worker runs _analyze_file_sync to its return
WorkerFinish(n, outcome) ==
    LET u == units[n]
        res == _analyze_file_sync(u.file, run.pack, outcome)
        logged == LogLlmCall(llm_logs, log_columns, now,
                             EngineLogArgs(u.file, run.pack, outcome, res.issues))
    IN  /\ pc = "collecting"
        /\ n \in Running
        /\ units' = [units EXCEPT ![n].state = "returned",
                                  ![n].outcome = IF res.called THEN outcome ELSE NoCall,
                                  ![n].issues = res.issues]
        /\ llm_logs' = IF res.logged THEN logged.logs ELSE llm_logs
        /\ UNCHANGED <<cache, log_columns, user_version, now, ttl_hours, opened, call,
                       histVars, scoreVars, libVars, workspace, config, pc, run, result, hist>>

\* the body of the as_completed loop for one completed future
Collect(n) ==
    LET u == units[n]
    IN  /\ pc = "collecting"
        /\ u.state = "returned"
        /\ run' = [run EXCEPT !.all_issues = @ \o u.issues,
                              !.llm_calls = @ + 1,
                              !.order = Append(@, n)]
        /\ cache' = CacheResults(cache, now, u.file, run.pack, u.issues)
        /\ units' = [units EXCEPT ![n].state = "collected"]
        /\ hist' = IF u.outcome.kind = "ok"
                   THEN [hist EXCEPT !.okAt[u.file.path] = Some(now)]
                   ELSE hist
        /\ UNCHANGED <<llm_logs, log_columns, user_version, now, ttl_hours, opened, call,
                       histVars, scoreVars, libVars, workspace, config, pc, result>>

FinishNoJoin ==
    /\ pc = "collecting"
    /\ result' = Some(Complete(config,
                    Finalize(run.all_issues, config, Len(workspace),
                             Len(run.hit_paths), run.llm_calls)))
    /\ pc' = "idle"
    /\ hist' = Ended(hist)
    /\ UNCHANGED <<storeVars, histVars, scoreVars, libVars, workspace, config, run, units>>

\* the pool is joined: steps 5 to 9 of analyze and its return
Finish ==
    /\ pc = "collecting"
    /\ \A n \in 1..Len(units) : units[n].state = "collected"
    /\ result' = Some(Complete(config,
                    Finalize(run.all_issues, config, Len(workspace),
                             Len(run.hit_paths), run.llm_calls)))
    /\ pc' = "idle"
    /\ hist' = Ended(hist)
    /\ UNCHANGED <<storeVars, histVars, scoreVars, libVars, workspace, config, run, units>>

\* cache.clear() between two runs
ClearCache ==
    LET res == CacheClear(cache, llm_logs)
    IN  /\ pc = "idle"
        /\ hist.runs > 0
        /\ hist.runs < MaxRuns
        /\ cache # {}
        /\ cache' = res.rows
        /\ llm_logs' = res.logs
        /\ hist' = [hist EXCEPT !.okAt = [p \in Paths |-> Absent], !.quiet = FALSE]
        /\ UNCHANGED <<log_columns, user_version, now, ttl_hours, opened, call,
                       histVars, scoreVars, libVars,
                       workspace, config, pc, run, units, result>>

\* TickHours hours pass between two runs
Advance ==
    /\ pc = "idle"
    /\ hist.runs > 0
    /\ hist.runs < MaxRuns
    /\ now < MaxEngineNow
    /\ now' = now + TickHours
    /\ hist' = [hist EXCEPT !.quiet = FALSE]
    /\ UNCHANGED <<cache, llm_logs, log_columns, user_version, ttl_hours, opened, call,
                   histVars, scoreVars, libVars, workspace, config, pc, run, units, result>>

Next ==
    \/ StartAnalyze
    \/ \E n \in 1..Len(units) : WorkerStart(n)
    \/ \E n \in 1..Len(units), outcome \in Outcomes : WorkerFinish(n, outcome)
    \/ \E n \in 1..Len(units) : Collect(n)
    \/ Finish
    \/ ClearCache
    \/ Advance

Spec == Init /\ [][Next]_vars

SpecObserved == InitObserved /\ [][Next]_vars

(***************************************************************************)
(* Repeated runs with no clear and within the TTL                          *)
(***************************************************************************)
InitLive == EngineInit(LiveConfigs)

\* the steps of a run in progress
PoolStep ==
    \/ \E n \in 1..Len(units) : WorkerStart(n)
    \/ \E n \in 1..Len(units), outcome \in Outcomes : WorkerFinish(n, outcome)
    \/ \E n \in 1..Len(units) : Collect(n)
    \/ Finish

NextLive == StartAnalyze \/ PoolStep

\* the guard of StartAnalyze: no run is in progress and analyze is called again
CanStart == pc = "idle" /\ hist.runs < config.runs

\* the pool runs every submitted task, a provider call returns or raises, and
\* the driver collects every future and returns: weak fairness of PoolStep; the
\* caller calls analyze again: weak fairness of StartAnalyze, stated with its
\* guard for ENABLED
SpecLive ==
    /\ InitLive
    /\ [][NextLive]_vars
    /\ WF_vars(PoolStep)
    /\ ([]<>(~CanStart) \/ []<><<StartAnalyze>>_vars)

(***************************************************************************)
(* The workspace and the configuration edited between two runs             *)
(***************************************************************************)
MaxTrail == 1

Indents == {0, 4}

\* the contents that differ from content in the trailing whitespace of one line
TrailingEdits(content) ==
    {[content EXCEPT ![k].trail = t] : k \in 1..Len(content), t \in 0..MaxTrail} \ {content}

\* the contents that differ from content in the indentation of one line
IndentEdits(content) ==
    {[content EXCEPT ![k].indent = i] : k \in 1..Len(content), i \in Indents} \ {content}

InitEdit == EngineInit({Config(BothPacks, 2, 2, {}, <<>>)})

\* a file of the workspace is edited between two runs
EditFile(n, content) ==
    /\ pc = "idle"
    /\ hist.runs > 0
    /\ hist.runs < MaxRuns
    /\ hist.edit = Absent
    /\ workspace' = [workspace EXCEPT ![n] = FileContext(@.path, content)]
    /\ hist' = [hist EXCEPT !.quiet = FALSE,
                            !.edit = Some([path |-> workspace[n].path,
                                           before |-> workspace[n].content,
                                           at |-> hist.runs])]
    /\ UNCHANGED <<storeVars, histVars, scoreVars, libVars, config, pc, run, units, result>>

\* the packs of the configuration are listed in the reverse order between two runs
Reorder ==
    /\ pc = "idle"
    /\ hist.runs > 0
    /\ hist.runs < MaxRuns
    /\ run.pack # <<>>
    /\ config.packs = run.pack.name
    /\ config' = [config EXCEPT
                    !.packs = [n \in 1..Len(@) |-> @[Len(@) + 1 - n]]]
    /\ hist' = [hist EXCEPT !.quiet = FALSE]
    /\ UNCHANGED <<storeVars, histVars, scoreVars, libVars, workspace, pc, run, units, result>>

NextEdit ==
    \/ Next
    \/ \E n \in 1..Len(workspace) :
            \E content \in TrailingEdits(workspace[n].content)
                            \cup IndentEdits(workspace[n].content) :
                EditFile(n, content)
    \/ Reorder

SpecEdit == InitEdit /\ [][NextEdit]_vars


(***************************************************************************)
(* Properties of the engine                                                *)
(***************************************************************************)
Failed(u) == u.outcome.kind \in {"error", "invalid"}

\* what a unit contributes when no other unit exists: the translation of its
\* own response, nothing if its call failed or was not made
Contribution(u) ==
    IF u.outcome.kind = "ok" THEN _response_to_issues(u.outcome.response, u.file.path)
    ELSE <<>>

RECURSIVE Gathered(_)
Gathered(order) ==
    IF order = <<>> THEN <<>>
    ELSE Contribution(units[Head(order)]) \o Gathered(Tail(order))

Returned == pc = "idle" /\ result # Absent

\* C1: when composition works, analyze returns an AnalysisResult whichever units
\* fail; a unit whose call raised contributes no finding, every other unit
\* contributes the translation of its own response, and the result is computed
\* from the cached findings followed by these contributions in collection order.
C1_FailureIsolation ==
    /\ \A n \in 1..Len(units) :
            units[n].state \in {"returned", "collected"} =>
                /\ units[n].issues = Contribution(units[n])
                /\ Failed(units[n]) => units[n].issues = <<>>
    /\ (pc = "idle" /\ hist.runs > 0 /\ compose(config.packs).raised = None) =>
            LET g == Gathered(run.order)
                k == Len(run.all_issues) - Len(g)
            IN  /\ result # Absent
                /\ result[1].raised = None
                /\ k >= 0
                /\ SubSeq(run.all_issues, k + 1, Len(run.all_issues)) = g
                /\ result[1].issues =
                        PostProcess(run.all_issues, config.rule_filter, config.disabled_rules)
                /\ result[1].meta.files_analyzed = Len(workspace)

\* a run returned in which one unit failed and another contributed findings
\* that are in the result
C1_Witness ==
    /\ Returned
    /\ result[1].raised = None
    /\ \E n, m \in 1..Len(units) :
            /\ Failed(units[n])
            /\ ~Failed(units[m])
            /\ units[m].issues # <<>>
            /\ \E i \in 1..Len(result[1].issues) :
                    result[1].issues[i].path = units[m].file.path

\* the file was put after a successful call of an earlier run, no clear since,
\* and the run began before that entry expired
ReusableAt(path) ==
    /\ run.ok_before[path] # Absent
    /\ run.started_at - run.ok_before[path][1] <= ttl_hours

\* C2: a file analyzed by a successful provider call in an earlier run is, in a
\* later run before the TTL expires and with no clear in between, a cache hit
\* and is not dispatched; for a single file the run returns llm_calls = 0 and
\* cache_hits = 1.
C2_CacheReuse ==
    \A i \in 1..Len(workspace) :
        ReusableAt(workspace[i].path) =>
            /\ \E h \in 1..Len(run.hit_paths) : run.hit_paths[h] = workspace[i].path
            /\ \A n \in 1..Len(units) : units[n].file.path # workspace[i].path
            /\ (Returned /\ Len(workspace) = 1) =>
                    /\ result[1].meta.llm_calls = 0
                    /\ result[1].meta.cache_hits = 1

\* a second run over a single file returned, the first having analyzed the file
\* with a successful call that yielded no finding, after time passed
C2_Witness ==
    /\ Returned
    /\ Len(workspace) = 1
    /\ ReusableAt(workspace[1].path)
    /\ run.started_at > run.ok_before[workspace[1].path][1]
    /\ result[1].issues = <<>>
    /\ result[1].meta.cache_hits = 1

FindingSet(issues) == {issues[n] : n \in 1..Len(issues)}

\* the run before the last dispatched every miss with no failing call, and the
\* last run followed it immediately
ImmediateRerun ==
    /\ Returned
    /\ hist.runs >= 2
    /\ hist.immediate
    /\ hist.prev # Absent
    /\ hist.prev[1].complete
    /\ hist.prev[1].result.raised = None
    /\ result[1].raised = None

\* C3: a run that follows immediately a run which dispatched every cache miss
\* and in which every provider call succeeded returns the same set of findings,
\* the same score and the same gate outcome as that run, whatever the files,
\* two files of identical content included.
C3_IdempotentRerun ==
    ImmediateRerun =>
        /\ FindingSet(result[1].issues) = FindingSet(hist.prev[1].result.issues)
        /\ result[1].score = hist.prev[1].result.score
        /\ result[1].gate_passed = hist.prev[1].result.gate_passed

DistinctContents ==
    \A i, j \in 1..Len(workspace) :
        i # j => hash_content(workspace[i].content) # hash_content(workspace[j].content)

\* the same, for workspaces whose files all differ in content
C3_DistinctContents == DistinctContents => C3_IdempotentRerun

C3_DistinctWitness ==
    /\ ImmediateRerun
    /\ DistinctContents
    /\ Len(workspace) = 2
    /\ result[1].issues # <<>>
    /\ result[1].meta.cache_hits = 2

\* min(provider.max_concurrent, max_llm_calls, number of cache-miss files)
PoolBound ==
    Min(config.max_concurrent, Min(config.max_llm_calls, Len(run.uncached_files)))

Partitioned == run.pack # <<>> /\ workspace # <<>>

\* the number of units a run may submit
Cap == IF config.max_llm_calls > 0 THEN config.max_llm_calls ELSE 0

IsHit(path) == \E h \in 1..Len(run.hit_paths) : run.hit_paths[h] = path

Misses == LET Miss(f) == ~IsHit(f.path) IN SelectSeq(workspace, Miss)

\* the units are the first Cap cache misses in discovery order, each collected at
\* most once
CappedDispatch ==
    /\ run.uncached_files = Misses
    /\ Len(units) = Min(Len(run.uncached_files), Cap)
    /\ \A n \in 1..Len(units) : units[n].file = run.uncached_files[n]
    /\ \A i, j \in 1..Len(run.order) : run.order[i] = run.order[j] => i = j
    /\ \A n \in 1..Len(units) :
            units[n].state = "collected" <=> \E i \in 1..Len(run.order) : run.order[i] = n
    /\ run.llm_calls = Len(run.order)
    /\ config.max_llm_calls <= 0 => units = <<>> /\ cache = {} /\ llm_logs = <<>>

\* the cache-miss files beyond the cap
Skipped == {run.uncached_files[n] : n \in (Len(units) + 1)..Len(run.uncached_files)}

NotAnalyzed(f) ==
    /\ \A n \in 1..Len(units) : units[n].file.path # f.path
    /\ \A i \in 1..Len(llm_logs) :
            llm_logs[i]["timestamp"] = run.started_at => llm_logs[i]["files_json"] # <<f.path>>

NoEntry(f) == \A r \in cache : KeyOf(r) # CacheKey(f, run.pack)

\* C15: a run submits at most max_llm_calls units, the first cache misses in
\* discovery order, each once; a cache miss beyond the cap gets no provider call
\* and the cache holds no entry for it; with max_llm_calls <= 0 nothing is
\* dispatched or cached.
C15_DispatchCap ==
    Partitioned =>
        /\ CappedDispatch
        /\ \A f \in Skipped : NotAnalyzed(f) /\ NoEntry(f)

SharesContent(f) ==
    \E n \in 1..Len(units) : hash_content(units[n].file.content) = hash_content(f.content)

\* the same, the entry of a skipped file being looked at only when no submitted
\* file has its content
C15_DispatchCapByContent ==
    Partitioned =>
        /\ CappedDispatch
        /\ \A f \in Skipped : NotAnalyzed(f) /\ (~SharesContent(f) => NoEntry(f))

\* a run returned that submitted one of two cache misses and cached its findings
C15_Witness ==
    /\ Returned
    /\ Partitioned
    /\ Len(units) = 1
    /\ Skipped # {}
    /\ \A f \in Skipped : ~SharesContent(f)
    /\ cache # {}
    /\ units[1].issues # <<>>

\* C16: when discovery finds no file, analyze returns issues = [], score = 100,
\* gate_passed = true, fail_reasons = [] and files_analyzed = cache_hits =
\* llm_calls = 0; no unit is dispatched, the cache gets no row and the call log
\* no row.
C16_EarlyExit ==
    (workspace = <<>> /\ compose(config.packs).raised = None) =>
        /\ units = <<>>
        /\ cache = {}
        /\ llm_logs = <<>>
        /\ pc = "idle"
        /\ Returned =>
                /\ result[1].raised = None
                /\ result[1].issues = <<>>
                /\ result[1].score = 100
                /\ result[1].gate_passed
                /\ result[1].fail_reasons = <<>>
                /\ result[1].meta =
                        [files_analyzed |-> 0, cache_hits |-> 0, llm_calls |-> 0]

\* analyze returned on an empty workspace with a configuration that would
\* dispatch
C16_Witness ==
    /\ Returned
    /\ workspace = <<>>
    /\ config.max_llm_calls > 0
    /\ result[1].raised = None
    /\ hist.runs = 1

Matches(rule_id, rule_filter) ==
    \E n \in 1..Len(rule_filter) : Contains(rule_filter[n], rule_id)

\* C17: with a non-empty rule_filter every finding of the returned result has a
\* rule id that contains a filter entry, whether it was read from the cache or
\* produced by a provider call of this run.
C17_RuleFilter ==
    (Returned /\ config.rule_filter # <<>>) =>
        \A i \in 1..Len(result[1].issues) :
            Matches(result[1].issues[i].rule_id, config.rule_filter)

\* a filtered run returned findings read from the cache, after cached findings
\* of another rule were filtered out
C17_Witness ==
    /\ Returned
    /\ config.rule_filter # <<>>
    /\ result[1].issues # <<>>
    /\ result[1].meta.cache_hits > 0
    /\ units = <<>>
    /\ \E i \in 1..Len(run.all_issues) :
            ~Matches(run.all_issues[i].rule_id, config.rule_filter)

\* a filtered run returned findings of its own provider calls, after fresh
\* findings of another rule were filtered out
C17_WitnessFresh ==
    /\ Returned
    /\ config.rule_filter # <<>>
    /\ result[1].issues # <<>>
    /\ result[1].meta.cache_hits = 0
    /\ \E n \in 1..Len(units) :
            \E i \in 1..Len(units[n].issues) :
                ~Matches(units[n].issues[i].rule_id, config.rule_filter)

UnknownPack == \E n \in 1..Len(config.packs) : config.packs[n] \notin PackRegistry

\* C18: when a configured pack is not registered, analyze raises and returns no
\* AnalysisResult; the run keeps no locals, dispatches no unit, and leaves the
\* cache and the call log without a row.
C18_UnknownPackFatal ==
    UnknownPack =>
        /\ pc = "idle"
        /\ run = IdleRun
        /\ units = <<>>
        /\ cache = {}
        /\ llm_logs = <<>>
        /\ result # Absent =>
                /\ result[1].raised = "ValueError: Pack not found"
                /\ result[1].issues = <<>>
                /\ result[1].meta.files_analyzed = 0

\* analyze raised twice on a workspace of two files, one configured pack being
\* registered and one not
C18_Witness ==
    /\ UnknownPack
    /\ Returned
    /\ hist.runs = 2
    /\ Len(workspace) = 2
    /\ \E n \in 1..Len(config.packs) : config.packs[n] \in PackRegistry


(***************************************************************************)
(* The scoring specification: calculate_score and check_gate called on     *)
(* lists of up to MaxFindings findings.                                    *)
(***************************************************************************)
MaxFindings == 5

make_issue(level) == Issue("test/rule", level, "test.py", 1, 1, "Test")

\* the fail_levels arguments: None, [], levels, a level given by its string
GateFailLevels == {Absent, Some(<<>>), Some(<<"BLOCKER">>), Some(<<"INFO", "minor">>)}

\* the score_threshold arguments: None, 0, 90
GateThresholds == {Absent, Some(0), Some(90)}

GateCall(fail_levels, score_threshold, gate) ==
    [fail_levels |-> fail_levels, score_threshold |-> score_threshold,
     passed |-> gate.passed, reasons |-> gate.reasons]

\* no store is open, no engine runs: findings are built and scored
InitScore ==
    /\ now = 0
    /\ ttl_hours = 1
    /\ opened = FALSE
    /\ user_version = 0
    /\ log_columns = {}
    /\ llm_logs = <<>>
    /\ cache = {}
    /\ lastPut = [k \in StoreKeys |-> Absent]
    /\ pre = FileSnapshot
    /\ call = Call("init", <<>>, Absent, 0, None)
    /\ workspace = <<>>
    /\ config = Config(BothPacks, 0, 1, {}, <<>>)
    /\ pc = "idle"
    /\ run = IdleRun
    /\ units = <<>>
    /\ result = Absent
    /\ hist = InitHist
    /\ scoring = NoScoring
    /\ migrator = NoMigrator
    /\ post = NoPost

\* one more finding in the list
AddFinding(level) ==
    /\ Len(scoring.issues) < MaxFindings
    /\ scoring' = Scoring(Append(scoring.issues, make_issue(level)), Absent, Absent)
    /\ UNCHANGED <<storeVars, histVars, engineVars, libVars>>

\* calculate_score(issues)
CalculateScore ==
    /\ scoring' = [scoring EXCEPT !.score = Some(calculate_score(scoring.issues))]
    /\ UNCHANGED <<storeVars, histVars, engineVars, libVars>>

\* check_gate(issues, fail_levels, score_threshold)
CheckGate(fail_levels, score_threshold) ==
    /\ scoring' = [scoring EXCEPT !.scorer_gate = Absent, !.gate =
            Some(GateCall(fail_levels, score_threshold,
                          check_gate(scoring.issues, fail_levels, score_threshold)))]
    /\ UNCHANGED <<storeVars, histVars, engineVars, libVars>>

\* ScoreCalculator(fail_levels, score_threshold).check_gate(issues)
ScorerCheckGate(fail_levels, score_threshold) ==
    /\ scoring' = [scoring EXCEPT !.gate = Absent, !.scorer_gate =
            Some(GateCall(fail_levels, score_threshold,
                          Scorer_check_gate(ScoreCalculator(fail_levels, score_threshold),
                                            scoring.issues)))]
    /\ UNCHANGED <<storeVars, histVars, engineVars, libVars>>

NextScore ==
    \/ \E level \in IssueLevels : AddFinding(level)
    \/ CalculateScore
    \/ \E fl \in GateFailLevels, th \in GateThresholds : CheckGate(fl, th)
    \/ \E fl \in GateFailLevels, th \in GateThresholds : ScorerCheckGate(fl, th)

SpecScore == InitScore /\ [][NextScore]_vars

(***************************************************************************)
(* Properties of the scoring functions (specification SpecScore)           *)
(***************************************************************************)
CountOf(issues, level) == Cardinality({n \in 1..Len(issues) : issues[n].level = level})

Reversed(seq) == [n \in 1..Len(seq) |-> seq[Len(seq) + 1 - n]]

Rotated(seq) == IF seq = <<>> THEN seq ELSE Append(Tail(seq), Head(seq))

WeightedPenalty(issues) ==
    25 * CountOf(issues, "BLOCKER") + 15 * CountOf(issues, "CRITICAL")
        + 8 * CountOf(issues, "MAJOR") + 3 * CountOf(issues, "MINOR")
        + 0 * CountOf(issues, "INFO")

\* C19: calculate_score(findings) is max(0, 100 - (25 per blocker + 15 per
\* critical + 8 per major + 3 per minor + 0 per info)): an integer of 0..100,
\* 100 for the empty list, the same for the list in another order.
C19_CalculateScore ==
    scoring.score # Absent =>
        LET score == scoring.score[1]
            expected == 100 - WeightedPenalty(scoring.issues)
        IN  /\ score = IF expected > 0 THEN expected ELSE 0
            /\ score \in 0..100
            /\ scoring.issues = <<>> => score = 100
            /\ calculate_score(Reversed(scoring.issues)) = score
            /\ calculate_score(Rotated(scoring.issues)) = score

\* the score of a list whose weights sum to more than 100 was computed
C19_Witness ==
    /\ scoring.score = Some(0)
    /\ WeightedPenalty(scoring.issues) > 100
    /\ Reversed(scoring.issues) # scoring.issues

\* a fail level as given (an IssueLevel or its string) names this IssueLevel
AsLevel(x) == IF x \in LevelValues THEN IssueLevel(x) ELSE x

GateLevels == IF scoring.gate[1].fail_levels = Absent
              THEN <<"BLOCKER", "CRITICAL", "MAJOR">>
              ELSE scoring.gate[1].fail_levels[1]

GateThreshold == IF scoring.gate[1].score_threshold = Absent THEN 70
                 ELSE scoring.gate[1].score_threshold[1]

ExpectedScore ==
    IF 100 - WeightedPenalty(scoring.issues) > 0
    THEN 100 - WeightedPenalty(scoring.issues) ELSE 0

\* C20: check_gate passes iff no finding has a severity of fail_levels and the
\* score is at least score_threshold; reasons has one entry per fail level with
\* at least one finding, giving their number, and one threshold entry iff the
\* score is below the threshold; passed iff reasons is empty; the defaults are
\* blocker, critical, major and 70.
C20_CheckGate ==
    scoring.gate # Absent =>
        LET gate == scoring.gate[1]
            issues == scoring.issues
            hit == {n \in 1..Len(GateLevels) : CountOf(issues, AsLevel(GateLevels[n])) > 0}
            below == ExpectedScore < GateThreshold
            LevelEntries == {i \in 1..Len(gate.reasons) : gate.reasons[i].kind = "level"}
            ScoreEntries == {i \in 1..Len(gate.reasons) : gate.reasons[i].kind = "score"}
        IN  /\ gate.passed <=> (hit = {} /\ ~below)
            /\ gate.passed <=> gate.reasons = <<>>
            /\ Cardinality(LevelEntries) = Cardinality(hit)
            /\ \A n \in hit : \E i \in LevelEntries :
                    /\ gate.reasons[i].level = LevelValue(AsLevel(GateLevels[n]))
                    /\ gate.reasons[i].n = CountOf(issues, AsLevel(GateLevels[n]))
            /\ Cardinality(ScoreEntries) = IF below THEN 1 ELSE 0
            /\ \A i \in ScoreEntries : gate.reasons[i].n = ExpectedScore

\* check_gate was called with its defaults on findings of two fail levels whose
\* score is below 70: three reasons
C20_Witness ==
    /\ scoring.gate # Absent
    /\ scoring.gate[1].fail_levels = Absent
    /\ scoring.gate[1].score_threshold = Absent
    /\ ~scoring.gate[1].passed
    /\ Len(scoring.gate[1].reasons) = 3

\* check_gate passed findings whose score equals the threshold
C20_WitnessAtThreshold ==
    /\ scoring.gate # Absent
    /\ scoring.gate[1].passed
    /\ scoring.issues # <<>>
    /\ ExpectedScore = GateThreshold

\* check_gate failed on the threshold alone
C20_WitnessThresholdOnly ==
    /\ scoring.gate # Absent
    /\ ~scoring.gate[1].passed
    /\ Len(scoring.gate[1].reasons) = 1
    /\ scoring.gate[1].reasons[1].kind = "score"


(***************************************************************************)
(* Properties of the engine called with an observer (SpecObserved)         *)
(***************************************************************************)
\* what analyze returns for the findings it gathered when nobody observes it
Unobserved ==
    IF workspace = <<>> THEN EarlyResult
    ELSE Finalize(run.all_issues, config, Len(workspace), Len(run.hit_paths), run.llm_calls)

\* the cache misses of a fresh store are all dispatched, collected and cached
AllAnalyzed ==
    /\ Len(units) = Min(Len(workspace), Cap)
    /\ \A n \in 1..Len(units) : units[n].state = "collected"

\* C21: whatever the observer does when it is called, a run returns the result
\* it returns without an observer, after the same provider calls and cache
\* writes.
C21_ProgressSideChannel ==
    (pc = "idle" /\ hist.runs = 1) =>
        /\ result # Absent
        /\ result[1] = Unobserved
        /\ AllAnalyzed

\* the same, for observers that return from every call
C21_ReturningObserver ==
    config.on_progress \in {"none", "never"} => C21_ProgressSideChannel

\* a run observed by an observer that returns gave findings
C21_Witness ==
    /\ pc = "idle"
    /\ hist.runs = 1
    /\ config.on_progress = "never"
    /\ result # Absent
    /\ result[1].issues # <<>>
    /\ Len(units) = 2


(***************************************************************************)
(* Properties of the cache key over edits (SpecEdit)                       *)
(***************************************************************************)
StripTrailing(content) == [k \in 1..Len(content) |-> [content[k] EXCEPT !.trail = 0]]

IndentDiffers(s, t) ==
    /\ Len(s) = Len(t)
    /\ \E k \in 1..Len(s) : s[k].indent # t[k].indent

\* the file of the workspace that was edited
Edited == CHOOSE f \in {workspace[n] : n \in 1..Len(workspace)} : f.path = hist.edit[1].path

\* the step is the beginning of a run
StartStep == pc = "idle" /\ (pc' = "collecting" \/ hist'.runs = hist.runs + 1)

\* the store holds a live entry for the content under the rules of the pack
Cached(content, pack) ==
    CacheGet(cache, now, ttl_hours, CacheKey(FileContext("a.py", content), pack)).ret # Absent

HitNext(path) == \E h \in 1..Len(run'.hit_paths) : run'.hit_paths[h] = path

C22_WitnessIndent ==
    /\ hist.edit # Absent
    /\ IndentDiffers(Edited.content, hist.edit[1].before)
    /\ hist.runs = 1
    /\ pc = "collecting"
    /\ \E n \in 1..Len(units) : units[n].file.path = Edited.path
    /\ Cached(hist.edit[1].before, run.pack)

IsPermutation(a, b) ==
    /\ Len(a) = Len(b)
    /\ \E p \in [1..Len(a) -> 1..Len(a)] :
            /\ \A i, j \in 1..Len(a) : i # j => p[i] # p[j]
            /\ b = [n \in 1..Len(a) |-> a[p[n]]]

\* C23: two lists of rule ids that are permutations of each other have the same
\* rules hash, and a file cached under the rules composed in one order is a
\* cache hit of the run that composes the same rules in another order.
C23_HashRules ==
    /\ [](run.pack # <<>> =>
            LET a == RuleIds(run.pack)
                b == RuleIds(compose(config.packs).pack)
            IN  IsPermutation(a, b) => hash_rules(a) = hash_rules(b))
    /\ [][(StartStep /\ run.pack # <<>>
              /\ IsPermutation(RuleIds(run.pack), RuleIds(compose(config.packs).pack))) =>
            \A n \in 1..Len(workspace) :
                Cached(workspace[n].content, run.pack) => HitNext(workspace[n].path)]_vars

\* a run that composed the packs in the reverse order of the run before it
\* found a file in the cache
C23_Witness ==
    /\ hist.runs >= 1
    /\ run.pack # <<>>
    /\ run.pack.name = config.packs
    /\ config.packs # BothPacks
    /\ RuleIds(run.pack) # RuleIds(compose(BothPacks).pack)
    /\ \E n \in 1..Len(workspace) : IsHit(workspace[n].path)


(***************************************************************************)
(* Properties of what a run caches, counts and logs (Spec)                 *)
(***************************************************************************)
NoApplicableRule(f) == get_rules_for_file(run.pack, f.path, f.content) = <<>>

\* the unit is the only one of the run with its content
OnlyOfItsContent(n) ==
    \A m \in 1..Len(units) :
        m # n => hash_content(units[m].file.content) # hash_content(units[n].file.content)

LogRowsOf(path) == {i \in 1..Len(llm_logs) : llm_logs[i]["files_json"] = <<path>>}

\* C24 (the part on calls and findings): a dispatched unit with no applicable
\* rule gets no provider call and no call-log row, and contributes no finding.
C24_NoRulesNoCall ==
    \A n \in 1..Len(units) :
        (units[n].state \in {"returned", "collected"} /\ NoApplicableRule(units[n].file)) =>
            /\ units[n].outcome = NoCall
            /\ units[n].issues = <<>>
            /\ LogRowsOf(units[n].file.path) = {}
            /\ \A i \in 1..Len(run.all_issues) : run.all_issues[i].path # units[n].file.path

\* C24: a dispatched unit with no applicable rule gets no provider call,
\* contributes no finding, and no cache entry is written for its key.
C24_NoRulesNotCached ==
    /\ C24_NoRulesNoCall
    /\ \A n \in 1..Len(units) :
            (pc = "collecting" /\ units[n].state = "collected"
                /\ NoApplicableRule(units[n].file)) => NoEntry(units[n].file)

\* the unit of a file with no applicable rule was collected
C24_Witness ==
    /\ pc = "collecting"
    /\ \E n \in 1..Len(units) :
            /\ units[n].state = "collected"
            /\ NoApplicableRule(units[n].file)
            /\ units[n].outcome = NoCall

\* C25: after the provider call or the validation of its response raised for a
\* unit, the store holds no entry for the unit's key.
C25_FailedNotCached ==
    \A n \in 1..Len(units) :
        (pc = "collecting" /\ units[n].state = "collected" /\ Failed(units[n])
            /\ OnlyOfItsContent(n) /\ hist.runs = 0) => NoEntry(units[n].file)

\* the provider invocations the run made so far
Invocations == {n \in 1..Len(units) : units[n].outcome # NoCall}

\* C29 (for runs whose units all have an applicable rule): llm_calls is the
\* number of provider invocations of the run.
C29_LlmCallsOfApplicable ==
    (Returned /\ result[1].raised = None
        /\ \A n \in 1..Len(units) : ~NoApplicableRule(units[n].file)) =>
            result[1].meta.llm_calls = Cardinality(Invocations)

\* C29: the llm_calls of the returned result is the number of provider
\* invocations the run made.
C29_LlmCalls ==
    (Returned /\ result[1].raised = None) =>
        result[1].meta.llm_calls = Cardinality(Invocations)

\* a run returned after a successful and a failing invocation
C29_Witness ==
    /\ Returned
    /\ result[1].raised = None
    /\ \A n \in 1..Len(units) : ~NoApplicableRule(units[n].file)
    /\ \E n, m \in 1..Len(units) : units[n].outcome.kind = "ok" /\ Failed(units[m])
    /\ result[1].meta.llm_calls = 2

\* the units whose worker has returned
Done == {n \in 1..Len(units) : units[n].state \in {"returned", "collected"}}

\* C30 (for invocations that return a valid response): in the first run on a
\* fresh store the call log has one row per such invocation, and no row
\* without an invocation.
C30_LogPerSuccessfulCall ==
    hist.runs = 0 =>
        /\ \A n \in Done :
                units[n].outcome.kind = "ok" /\ OnlyOfItsContent(n)
                /\ (\A m \in 1..Len(units) : units[m].file.path = units[n].file.path => m = n)
                    => Cardinality(LogRowsOf(units[n].file.path)) = 1
        /\ Len(llm_logs) = Cardinality({n \in Done : units[n].outcome.kind = "ok"})

\* C30: in the first run on a fresh store the call log has exactly one row per
\* provider invocation made, whether it returned or raised.
C30_LogPerInvocation ==
    hist.runs = 0 =>
        Len(llm_logs) = Cardinality({n \in Done : units[n].outcome # NoCall})

\* two invocations of a run returned and were logged
C30_Witness ==
    /\ hist.runs = 0
    /\ Len(llm_logs) = 2
    /\ \A n \in 1..Len(units) : n \in Done /\ units[n].outcome.kind = "ok"


(***************************************************************************)
(* Properties of the worker pool (Spec)                                    *)
(***************************************************************************)
\* C26: a run computes and returns its result only when every dispatched unit
\* has finished and was collected, and the list it merges holds the findings
\* of every unit whose call succeeded.
C26_JoinBarrier ==
    [][(pc = "collecting" /\ (result' # result \/ pc' # pc)) =>
            /\ \A n \in 1..Len(units) : units[n].state = "collected"
            /\ \A n \in 1..Len(units) :
                    units[n].outcome.kind = "ok" =>
                        FindingSet(Contribution(units[n])) \subseteq FindingSet(run.all_issues)
            /\ result' = Some(Finalize(run.all_issues, config, Len(workspace),
                                       Len(run.hit_paths), run.llm_calls))]_vars

\* a run of two units returned, one unit having finished while the other was
\* not started, and the findings of both are in the result
C26_Witness ==
    /\ Returned
    /\ Len(units) = 2
    /\ run.max_workers = 1
    /\ run.order = <<1, 2>>
    /\ \A n \in 1..2 :
            /\ units[n].issues # <<>>
            /\ FindingSet(units[n].issues) \subseteq FindingSet(result[1].issues)

\* the units collected so far whose key is the key of f
PutsOn(f) ==
    {n \in 1..Len(units) :
        units[n].state = "collected" /\ CacheKey(units[n].file, run.pack) = CacheKey(f, run.pack)}

\* C27: the store holds, for every key written by the run, one entry, with the
\* finding list of one put of the run on that key; the workers do no cache
\* operation, and the lookups of a run are over before its first put and made
\* while no worker of an earlier run is active.
C27_NoLostUpdate ==
    /\ [](pc = "collecting" =>
            \A n \in 1..Len(units) :
                units[n].state = "collected" =>
                    LET rows == {r \in cache : KeyOf(r) = CacheKey(units[n].file, run.pack)}
                    IN  /\ Cardinality(rows) = 1
                        /\ \E m \in PutsOn(units[n].file) :
                                \A r \in rows : r.issues_json = IssuesToJson(units[m].issues))
    /\ [](pc = "idle" => \A n \in 1..Len(units) : units[n].state = "collected")
    /\ [][(pc = "collecting" /\ cache' # cache) =>
            \E n \in 1..Len(units) :
                /\ units[n].state = "returned"
                /\ units' = [units EXCEPT ![n].state = "collected"]]_vars

\* two units of identical content got different findings, both were put, and
\* a worker was running during the first put
C27_Witness ==
    /\ pc = "collecting"
    /\ Len(units) = 2
    /\ run.max_workers = 2
    /\ CacheKey(units[1].file, run.pack) = CacheKey(units[2].file, run.pack)
    /\ units[1].issues # units[2].issues
    /\ units[1].issues # <<>>
    /\ units[2].issues # <<>>
    /\ \A n \in 1..2 : units[n].state = "collected"

\* the result of the run had its units been collected in submission order
InSubmissionOrder ==
    LET g == Gathered(run.order)
        hits == SubSeq(run.all_issues, 1, Len(run.all_issues) - Len(g))
    IN  Finalize(hits \o Gathered([n \in 1..Len(units) |-> n]), config,
                 Len(workspace), Len(run.hit_paths), Len(units))

\* C28: the set of findings, the score and the gate outcome of a run are those
\* of the same run with its units collected in submission order, whatever the
\* order in which they completed.
C28_OrderIndependence ==
    (Returned /\ result[1].raised = None /\ units # <<>>) =>
        /\ FindingSet(result[1].issues) = FindingSet(InSubmissionOrder.issues)
        /\ result[1].score = InSubmissionOrder.score
        /\ result[1].gate_passed = InSubmissionOrder.gate_passed
        /\ FindingSet(result[1].fail_reasons) = FindingSet(InSubmissionOrder.fail_reasons)

\* a run returned whose second unit completed first, both with findings
C28_Witness ==
    /\ Returned
    /\ result[1].raised = None
    /\ run.order = <<2, 1>>
    /\ units[1].issues # <<>>
    /\ units[2].issues # <<>>
    /\ units[1].outcome.response # units[2].outcome.response
    /\ result[1].issues # InSubmissionOrder.issues


(***************************************************************************)
(* The Migrator on a store of its own (SpecMigrator)                       *)
(***************************************************************************)
\* no SQLiteCache is constructed and no engine runs
NoStoreNoEngine ==
    /\ now = 0
    /\ ttl_hours = 1
    /\ opened = FALSE
    /\ user_version = 0
    /\ log_columns = {}
    /\ llm_logs = <<>>
    /\ cache = {}
    /\ lastPut = [k \in StoreKeys |-> Absent]
    /\ pre = FileSnapshot
    /\ call = Call("init", <<>>, Absent, 0, None)
    /\ workspace = <<>>
    /\ config = Config(BothPacks, 0, 1, {}, <<>>)
    /\ pc = "idle"
    /\ run = IdleRun
    /\ units = <<>>
    /\ result = Absent
    /\ hist = InitHist

\* Migrator(migrations) with 1 to MaxMigrations migrations, on a store at version 0
InitMigrator ==
    /\ NoStoreNoEngine
    /\ scoring = NoScoring
    /\ post = NoPost
    /\ migrator \in {[NoMigrator EXCEPT !.count = n] : n \in 1..MaxMigrations}

MigratorCallState(target, from, raised) ==
    [target |-> target, from |-> from, before |-> Len(migrator.applied), raised |-> raised]

\* apply_pending(conn, target) up to its loop; fail is the migration whose apply
\* raises during this call (0: none does)
MigratorCall(target, fail) ==
    LET current == migrator.version
    IN  /\ migrator.pending = Absent
        /\ Len(migrator.applied) < MaxApplied
        /\ migrator' =
            IF target > migrator.count
            THEN [migrator EXCEPT !.last = Some(MigratorCallState(target, current,
                                        "ValueError: exceeds available migrations"))]
            ELSE IF target < current
            THEN [migrator EXCEPT !.last = Some(MigratorCallState(target, current,
                                        "ValueError: downgrade not supported"))]
            ELSE [migrator EXCEPT
                    !.pending = Some([target |-> target, fail |-> fail,
                                      todo |-> PendingRange(current, target)]),
                    !.last = Some(MigratorCallState(target, current, "running"))]
        /\ UNCHANGED <<storeVars, histVars, engineVars, scoreVars, post>>

\* one turn of the loop: self._migrations[i].apply(conn), which may raise
MigratorApply ==
    /\ migrator.pending # Absent
    /\ migrator.pending[1].todo # <<>>
    /\ LET m == Head(migrator.pending[1].todo)
       IN  migrator' =
            IF m = migrator.pending[1].fail
            THEN [migrator EXCEPT !.pending = Absent,
                                  !.last[1].raised = "sqlite3.Error"]
            ELSE [migrator EXCEPT !.applied = Append(@, m),
                                  !.pending[1].todo = Tail(@)]
    /\ UNCHANGED <<storeVars, histVars, engineVars, scoreVars, post>>

\* after the loop: self.set_version(conn, target)
MigratorStamp ==
    /\ migrator.pending # Absent
    /\ migrator.pending[1].todo = <<>>
    /\ migrator' = [migrator EXCEPT !.version = migrator.pending[1].target,
                                    !.pending = Absent,
                                    !.last[1].raised = None]
    /\ UNCHANGED <<storeVars, histVars, engineVars, scoreVars, post>>

NextMigrator ==
    \/ \E target \in 0..(MaxMigrations + 1), fail \in 0..MaxMigrations :
            MigratorCall(target, fail)
    \/ MigratorApply
    \/ MigratorStamp

SpecMigrator == InitMigrator /\ [][NextMigrator]_vars

\* the migrations applied since the last call began
AppliedByCall ==
    SubSeq(migrator.applied, migrator.last[1].before + 1, Len(migrator.applied))

\* C31: apply_pending(target) on a store at version c <= target <= number of
\* migrations applies the migrations to versions c + 1 .. target, each once and
\* in ascending order, and sets the version to target after the last of them;
\* with c = target it applies none.
C31_ApplyPendingRange ==
    migrator.last # Absent =>
        LET c == migrator.last[1].from
            target == migrator.last[1].target
        IN  /\ migrator.pending # Absent =>
                    /\ migrator.version = c
                    /\ Len(AppliedByCall) <= target - c
                    /\ AppliedByCall = [k \in 1..Len(AppliedByCall) |-> c + k]
            /\ (migrator.pending = Absent /\ migrator.last[1].raised = None) =>
                    /\ c <= target
                    /\ target <= migrator.count
                    /\ migrator.version = target
                    /\ AppliedByCall = [k \in 1..(target - c) |-> c + k]

\* a call has upgraded a store from version 1 to version 3
C31_Witness ==
    /\ migrator.last # Absent
    /\ migrator.pending = Absent
    /\ migrator.last[1].raised = None
    /\ migrator.last[1].from = 1
    /\ migrator.last[1].target = 3
    /\ migrator.version = 3

\* a call with the target equal to the version has applied nothing
C31_WitnessNone ==
    /\ migrator.last # Absent
    /\ migrator.pending = Absent
    /\ migrator.last[1].raised = None
    /\ migrator.last[1].from = 2
    /\ migrator.last[1].target = 2
    /\ AppliedByCall = <<>>

\* C32: between two calls of apply_pending, also after a call in which a
\* migration raised, the version is the number of migrations applied to the
\* store and no migration was applied twice.
C32_VersionCountsApplied ==
    migrator.pending = Absent =>
        /\ migrator.version = Len(migrator.applied)
        /\ \A i, j \in 1..Len(migrator.applied) :
                i # j => migrator.applied[i] # migrator.applied[j]


(***************************************************************************)
(* The post-processing steps on lists of their own (SpecPost)              *)
(***************************************************************************)
MaxPostFindings == 11   \* findings in the list
MaxOtherFile == 1       \* findings of b.py among them

\* two findings of one identity and different severities in a.py, one in b.py
PostFindings ==
    {Issue("test/rule", "MINOR", "a.py", 1, 1, "Test"),
     Issue("test/rule", "BLOCKER", "a.py", 1, 1, "Test"),
     Issue("test/rule", "MAJOR", "b.py", 1, 1, "Test")}

InitPost ==
    /\ NoStoreNoEngine
    /\ scoring = NoScoring
    /\ migrator = NoMigrator
    /\ post = NoPost

\* one more finding in the list
AddPostFinding(i) ==
    /\ Len(post.issues) < MaxPostFindings
    /\ i.path = "b.py" =>
            Cardinality({n \in 1..Len(post.issues) : post.issues[n].path = "b.py"})
                < MaxOtherFile
    /\ post' = [NoPost EXCEPT !.issues = Append(post.issues, i)]
    /\ UNCHANGED <<storeVars, histVars, engineVars, scoreVars, migrator>>

\* self._deduplicate(issues)
Deduplicate ==
    /\ post' = [post EXCEPT !.deduplicated = Some(_deduplicate(post.issues))]
    /\ UNCHANGED <<storeVars, histVars, engineVars, scoreVars, migrator>>

\* self._limit_per_file(issues)
LimitPerFile ==
    /\ post' = [post EXCEPT !.limited = Some(_limit_per_file(post.issues))]
    /\ UNCHANGED <<storeVars, histVars, engineVars, scoreVars, migrator>>

NextPost ==
    \/ \E i \in PostFindings : AddPostFinding(i)
    \/ Deduplicate
    \/ LimitPerFile

SpecPost == InitPost /\ [][NextPost]_vars

\* the positions of the first occurrence of each identity
FirstAt(issues) ==
    {n \in 1..Len(issues) : \A m \in 1..(n - 1) : issue_id(issues[m]) # issue_id(issues[n])}

\* the k-th smallest element of a set of positions
Kth(positions, k) ==
    CHOOSE n \in positions : Cardinality({m \in positions : m <= n}) = k

\* C33: _deduplicate returns the first occurrence of each identity of its
\* input, in input order: no two returned findings share an identity and every
\* identity of the input is returned.
C33_StableDedup ==
    post.deduplicated # Absent =>
        LET in == post.issues
            out == post.deduplicated[1]
        IN  /\ \A i, j \in 1..Len(out) : i # j => issue_id(out[i]) # issue_id(out[j])
            /\ {issue_id(in[n]) : n \in 1..Len(in)} = {issue_id(out[n]) : n \in 1..Len(out)}
            /\ Len(out) = Cardinality(FirstAt(in))
            /\ \A k \in 1..Len(out) : out[k] = in[Kth(FirstAt(in), k)]

\* a list whose later findings repeat the identities of its first two, at
\* another severity, was deduplicated
C33_Witness ==
    /\ post.deduplicated # Absent
    /\ Len(post.issues) >= 4
    /\ Len(post.deduplicated[1]) = 2
    /\ post.issues[1].path = "b.py"
    /\ post.issues[2].level = "MINOR"
    /\ \E n \in 3..Len(post.issues) : post.issues[n].level = "BLOCKER"

CountIn(issues, path, levels) ==
    Cardinality({n \in 1..Len(issues) : issues[n].path = path /\ issues[n].level \in levels})

\* l is strictly more severe than m
MoreSevere(l, m) ==
    \E a, b \in 1..Len(severity_order) :
        a < b /\ severity_order[a] = LevelValue(l) /\ severity_order[b] = LevelValue(m)

\* C34: after _limit_per_file every path has min(10, n) findings, n being its
\* number of findings before, every retained finding is one of the input, and
\* no dropped finding is strictly more severe than a retained one of its file.
C34_PerFileCap ==
    post.limited # Absent =>
        LET in == post.issues
            out == post.limited[1]
        IN  \A path \in Paths :
                /\ CountIn(out, path, IssueLevels) = Min(10, CountIn(in, path, IssueLevels))
                /\ \A l \in IssueLevels : CountIn(out, path, {l}) <= CountIn(in, path, {l})
                /\ \A l, m \in IssueLevels :
                        (CountIn(out, path, {l}) < CountIn(in, path, {l})
                            /\ CountIn(out, path, {m}) > 0) => ~MoreSevere(l, m)

\* eleven findings of a.py that begin with a minor one and end with a blocker
\* were capped
C34_Witness ==
    /\ post.limited # Absent
    /\ CountIn(post.issues, "a.py", IssueLevels) = 11
    /\ post.issues[1].level = "MINOR"
    /\ post.issues[11].level = "BLOCKER"
    /\ CountIn(post.limited[1], "a.py", IssueLevels) = 10

Occurrences(issues, i) == {n \in 1..Len(issues) : issues[n] = i}

\* C35: two retained findings of different files, each occurring once in the
\* input, are in the output of _limit_per_file in their input order.
C35_CrossFileOrder ==
    post.limited # Absent =>
        LET in == post.issues
            out == post.limited[1]
        IN  \A i, j \in 1..Len(out) :
                (i < j /\ out[i].path # out[j].path
                    /\ Cardinality(Occurrences(in, out[i])) = 1
                    /\ Cardinality(Occurrences(in, out[j])) = 1) =>
                    \A a \in Occurrences(in, out[i]), b \in Occurrences(in, out[j]) : a < b

\* C35 (per file): the retained findings of each file are grouped, the files in
\* the order of their first finding, and within a file by severity.
C35_GroupedByFile ==
    post.limited # Absent =>
        LET in == post.issues
            out == post.limited[1]
        IN  \A i, j \in 1..Len(out) :
                (i < j /\ out[i].path # out[j].path) =>
                    \E a \in 1..Len(in) :
                        /\ in[a].path = out[i].path
                        /\ \A b \in 1..Len(in) : in[b].path = out[j].path => a < b

\* a list with a finding of b.py between two of a.py was capped
C35_Witness ==
    /\ post.limited # Absent
    /\ Len(post.issues) = 3
    /\ post.issues[1].path = "a.py"
    /\ post.issues[2].path = "b.py"
    /\ post.issues[3].path = "a.py"
    /\ post.issues[1] # post.issues[3]


(***************************************************************************)
(* Properties of the returned result (Spec)                                *)
(***************************************************************************)
\* C36: no finding of a returned result has a rule id of config.disabled_rules,
\* whether it was read from the cache or translated from a provider response,
\* with and without a rule filter.
C36_DisabledRules ==
    (Returned /\ result[1].raised = None) =>
        \A i \in 1..Len(result[1].issues) :
            result[1].issues[i].rule_id \notin config.disabled_rules

Disabled(issues) == \E i \in 1..Len(issues) : issues[i].rule_id \in config.disabled_rules

\* a run with a rule filter that matches a disabled rule returned findings,
\* after findings of the disabled rule were read from the cache
C36_Witness ==
    /\ Returned
    /\ config.rule_filter # <<>>
    /\ result[1].issues # <<>>
    /\ result[1].meta.cache_hits > 0
    /\ units = <<>>
    /\ Disabled(run.all_issues)

\* a run without a rule filter returned findings, after a provider response
\* gave findings of the disabled rule
C36_WitnessFresh ==
    /\ Returned
    /\ config.rule_filter = <<>>
    /\ result[1].issues # <<>>
    /\ \E n \in 1..Len(units) : Disabled(units[n].issues)

\* the level strings IssueLevel(...) accepts
WellFormed(ci) == ci.level \in {"blocker", "critical", "major", "minor", "info"}

\* C37: the findings translated from a response are, in response order, those
\* of its findings whose translation succeeds; a finding whose level is no
\* IssueLevel is omitted and the others of the response are returned.
C37_MalformedDropped ==
    \A n \in 1..Len(units) :
        (units[n].state \in {"returned", "collected"} /\ units[n].outcome.kind = "ok") =>
            LET good == SelectSeq(units[n].outcome.response, WellFormed)
                out == units[n].issues
            IN  /\ Len(out) = Len(good)
                /\ \A k \in 1..Len(out) :
                        /\ out[k].rule_id = good[k].rule_id
                        /\ LevelValue(out[k].level) = good[k].level
                        /\ out[k].path = units[n].file.path
                        /\ out[k].start_line = good[k].start_line
                        /\ out[k].end_line = good[k].end_line
                        /\ out[k].title = good[k].title

\* a response with a malformed finding followed by a well-formed one was
\* translated
C37_Witness ==
    \E n \in 1..Len(units) :
        /\ units[n].state = "returned"
        /\ units[n].outcome.kind = "ok"
        /\ Len(units[n].outcome.response) = 2
        /\ ~WellFormed(units[n].outcome.response[1])
        /\ Len(units[n].issues) = 1


(***************************************************************************)
(* Properties of the ScoreCalculator (SpecScore)                           *)
(***************************************************************************)
\* the last call of ScoreCalculator.check_gate returned what check_gate returns
\* for the arguments the calculator was built with
SameAsCheckGate ==
    LET c == scoring.scorer_gate[1]
        g == check_gate(scoring.issues, c.fail_levels, c.score_threshold)
    IN  c.passed = g.passed /\ c.reasons = g.reasons

\* C38: ScoreCalculator(fail_levels, score_threshold).check_gate(findings)
\* returns what check_gate(findings, fail_levels, score_threshold) returns, for
\* every fail_levels, the empty list included, and every threshold, 0 included.
C38_ScorerIsCheckGate == scoring.scorer_gate # Absent => SameAsCheckGate

\* C38 (for arguments that are not falsy): the same for a fail_levels that is
\* None or not empty and a threshold that is None or not 0.
C38_ScorerTruthy ==
    (scoring.scorer_gate # Absent
        /\ scoring.scorer_gate[1].fail_levels # Some(<<>>)
        /\ scoring.scorer_gate[1].score_threshold # Some(0)) => SameAsCheckGate

\* a calculator built with one fail level and the threshold 90 failed a list
\* for both reasons
C38_Witness ==
    /\ scoring.scorer_gate # Absent
    /\ scoring.scorer_gate[1].fail_levels = Some(<<"BLOCKER">>)
    /\ scoring.scorer_gate[1].score_threshold = Some(90)
    /\ Len(scoring.scorer_gate[1].reasons) = 2


(***************************************************************************)
(* Consistency of the returned result (Spec)                               *)
(***************************************************************************)
\* C39: in every returned AnalysisResult the score is calculate_score of the
\* result's own findings and lies in 0..100, fail_reasons is the reasons list
\* of check_gate over the same findings, and gate_passed holds iff fail_reasons
\* is empty.
C39_ResultConsistency ==
    (Returned /\ result[1].raised = None) =>
        /\ result[1].score = calculate_score(result[1].issues)
        /\ result[1].score \in 0..100
        /\ result[1].fail_reasons = check_gate(result[1].issues, Absent, Absent).reasons
        /\ result[1].gate_passed <=> (result[1].fail_reasons = <<>>)

\* a run returned a failing result after the filter dropped findings that
\* would have changed the score
C39_Witness ==
    /\ Returned
    /\ result[1].raised = None
    /\ ~result[1].gate_passed
    /\ result[1].score < 100
    /\ calculate_score(run.all_issues) # result[1].score


(***************************************************************************)
(* Convergence of repeated runs (SpecLive)                                 *)
(***************************************************************************)
\* the last run found every file in the cache and made no provider call
AllHits ==
    /\ Returned
    /\ result[1].raised = None
    /\ result[1].meta.cache_hits = Len(workspace)
    /\ result[1].meta.llm_calls = 0
    /\ units = <<>>

\* ceil(n / d)
CeilDiv(n, d) == (n + d - 1) \div d

\* C40: with max_llm_calls >= 1, a fixed workspace and rule set, no clear and
\* no expiry, repeated runs reach a run in which every file is a cache hit and
\* no provider call is made; every run after the first
\* ceil(N / max_llm_calls) runs is such a run.
C40_Convergence ==
    /\ <>AllHits
    /\ [](pc = "idle" /\ hist.runs > CeilDiv(Len(workspace), config.max_llm_calls)
            => AllHits)

\* the third run over two files of different contents with max_llm_calls = 1
\* found both in the cache
C40_Witness ==
    /\ AllHits
    /\ hist.runs = 3
    /\ Len(workspace) = 2
    /\ config.max_llm_calls = 1
    /\ hash_content(workspace[1].content) # hash_content(workspace[2].content)

====
